---- MODULE Spec2Model ----
(***************************************************************************)
(* Model of the wtw-transcoder job pipeline: the job store                 *)
(* (src/services/database.js), the queue wiring and its lifecycle          *)
(* listeners (src/services/queue.js), the submission API                   *)
(* (src/routes/dashboard.js) and the transcoding worker                    *)
(* (src/workers/transcoding.js and the incremental-upload worker kept in   *)
(* src/services/queue.js).                                                 *)
(*                                                                         *)
(* Spec   : job store + queue + API, the pipeline seen through the events  *)
(*          it raises (active, progress, completed, failed).               *)
(* SpecW  : one job's pipeline step by step, with its checkpoint, scratch  *)
(*          directory and the output bucket.                               *)
(* SpecF  : filterValidResolutions on bounded inputs.                      *)
(* SpecA  : the submission route on every request body, and the output     *)
(*          keys of the jobs it creates.                                   *)
(* SpecB  : B2Service.authorize under concurrent callers                   *)
(*          (src/services/b2.js).                                          *)
(* SpecR  : cleanupOldJobs over the scratch directories, in its two builds.*)
(* SpecP  : the progress reports of one handler run and the checkpoint     *)
(*          writes of its stages.                                          *)
(* SpecC  : the cancel route step by step against the queue reserving the  *)
(*          entry and the lifecycle listeners.                             *)
(* SpecL  : one accepted submission under a fairly scheduled queue.        *)
(* SpecS  : sweeps of cleanupOldJobs against runs of the worker.           *)
(***************************************************************************)
EXTENDS Integers, Sequences, FiniteSets, TLC

(***************************************************************************)
(* Bounds of the model.                                                    *)
(***************************************************************************)
MaxJobs == 2
MaxEntries == 2
MaxRestarts == 1
MaxCrashes == 1
MaxRequested == 3
MaxCallers == 3
MaxRequests == 2
MaxDirs == 2
MaxResolutions == 2
MaxPending == 2

(***************************************************************************)
(* Program constants.                                                      *)
(***************************************************************************)
MAX_CONCURRENT_JOBS == 2
attempts == 3

JobIds == 1..MaxJobs
EntryIds == 1..MaxEntries

\* JOB_STATUS of database.js; "none" is a job id that has no row yet.
JOB_STATUS == {"queued", "processing", "completed", "failed"}

\* Values job.progress() is called with: the first of a run and the final 100
\* that precedes the return.
ProgressValues == {5, 100}

\* process.env.MAX_CONCURRENT_JOBS: unset (the default applies) or 1.
ConcurrencyEnv == {"unset", "1"}

\* req.body.callback_url of a submission.
CallbackInputs == {"absent", "empty", "url"}

VARIABLES
    jobs,        \* jobs table: job id -> row
    entries,     \* queue entries: entry id -> entry
    envCallback, \* process.env.WEBAPP_CALLBACK_URL is set
    apiKeySet,   \* process.env.API_KEY is set
    paused,      \* the queue is paused
    maxConcurrentJobs, \* concurrency given to transcodingQueue.process
    restarts,    \* number of worker restarts so far
    runs,        \* entry id -> number of times the handler was invoked for it
    failEvents,  \* entry id -> number of "failed" events handled for it
    failurePosts, \* entry id -> number of failure-callback POSTs issued for it
    wjob,        \* SpecW: the job whose pipeline is followed (worker build, source video)
    checkpoint,  \* SpecW: job_state.json in the job's scratch directory
    disk,        \* SpecW: the other files of the scratch directory
    bucket,      \* SpecW: the HLS output bucket
    run,         \* SpecW: the handler invocation in progress
    hist,        \* SpecW: attempts made, crashes, what earlier attempts completed
    filterCall,  \* SpecF: one call of filterValidResolutions, arguments and result
    reply,       \* SpecA: status code of the last response of the submission API
    keyWriters,  \* SpecA: pairs <<output-bucket key, job id>>, who wrote which key
    b2,          \* SpecB: the B2Service instance and the authorization requests it issued
    callers,     \* SpecB: caller id -> where its call of authorize() stands
    scratch,     \* SpecR: scratch directory id -> its checkpoint and age, or removed
    handler,     \* SpecP: one job's handler, where it stands in its program
    inflight,    \* SpecP: progress events issued by job.progress, not yet handled
    cancelCall,  \* SpecC: where a DELETE /job/:jobId request stands
    lifecycle,   \* SpecC: lifecycle events the queue emitted, not yet handled
    tempDirRun   \* SpecS: whether a run of the worker holds each scratch directory

systemVars == <<jobs, entries, envCallback, apiKeySet, paused, maxConcurrentJobs, restarts, runs, failEvents, failurePosts>>
workerVars == <<wjob, checkpoint, disk, bucket, run, hist>>
pureVars == <<filterCall, reply, keyWriters, b2, callers, scratch, handler, inflight, cancelCall, lifecycle, tempDirRun>>
vars == <<systemVars, workerVars, pureVars>>

NoJob ==
    [status |-> "none", progress |-> 0, error_message |-> "null",
     output_key |-> "null", started_at |-> FALSE, completed_at |-> FALSE,
     callbackUrl |-> "null", environment |-> "null", videoName |-> "null"]

NoEntry ==
    [job |-> 0, state |-> "none", attemptsMade |-> 0, stalledCount |-> 0,
     run |-> "none", callbackUrl |-> "null"]

(***************************************************************************)
(* Job store statements.                                                   *)
(***************************************************************************)
\* jobQueries.create / JobManager.createJob, with the metadata of the
\* submission: callbackUrl, environment, videoName.
CreateJob(js, j, cb, env, name) ==
    [js EXCEPT ![j] = [NoJob EXCEPT !.status = "queued", !.callbackUrl = cb,
                                    !.environment = env, !.videoName = name]]

\* jobQueries.updateStatus / JobManager.updateJobStatus
UpdateJobStatus(js, j, s) ==
    [js EXCEPT ![j].status = s,
               ![j].started_at = IF s = "processing" THEN TRUE ELSE @,
               ![j].completed_at = IF s \in {"completed", "failed"} THEN TRUE ELSE @]

\* jobQueries.updateProgress / JobManager.updateJobProgress
UpdateJobProgress(js, j, p) ==
    [js EXCEPT ![j].progress = p]

\* jobQueries.setError / JobManager.setJobError
SetJobError(js, j, msg) ==
    [js EXCEPT ![j].status = "failed",
               ![j].error_message = msg,
               ![j].completed_at = TRUE]

\* jobQueries.complete / JobManager.completeJob: the metadata column is
\* overwritten by the result's metadata, which has no callbackUrl, no
\* environment and no videoName.
CompleteJob(js, j, key) ==
    [js EXCEPT ![j].status = "completed",
               ![j].output_key = key,
               ![j].progress = 100,
               ![j].completed_at = TRUE,
               ![j].callbackUrl = "undefined",
               ![j].environment = "undefined",
               ![j].videoName = "undefined"]

(***************************************************************************)
(* Queue helpers.                                                          *)
(***************************************************************************)
FreeEntries == {e \in EntryIds : entries[e].state = "none"}
FreeJobs == {j \in JobIds : jobs[j].status = "none"}

Min(S) == CHOOSE x \in S : \A y \in S : x <= y

\* QueueManager.addTranscodingJob: a new entry, waiting, with the payload.
AddTranscodingJob(es, e, j, cb) ==
    [es EXCEPT ![e] = [NoEntry EXCEPT !.job = j, !.state = "waiting", !.callbackUrl = cb]]

\* Handlers running in the worker process.
Running == {e \in EntryIds : entries[e].state = "active" /\ entries[e].run # "none"}

\* targetUrl of sendFailureCallback / sendCompletionCallback
HasTargetUrl(e) == entries[e].callbackUrl = "url" \/ envCallback

\* parseInt(process.env.MAX_CONCURRENT_JOBS) || 2
ParseConcurrency(v) == IF v = "unset" THEN MAX_CONCURRENT_JOBS ELSE 1

(***************************************************************************)
(* Requests of the submission API.                                         *)
(***************************************************************************)
\* The x-api-key / Bearer value of a request: none, one that differs from
\* process.env.API_KEY, the configured one.
ApiKeys == {"missing", "wrong", "right"}

\* authenticate: the request is refused when API_KEY is set and the value the
\* request carries differs from it; with API_KEY unset every request passes.
authenticate(k) == ~(apiKeySet /\ k # "right")

\* req.body.key: absent, or the name of a source object.
SourceKeys == {"absent", "a.mp4", "in/a.mp4", "b.mp4"}

\* basename(key, extname(key))
Basename(key) ==
    CASE key = "a.mp4" -> "a"
      [] key = "in/a.mp4" -> "a"
      [] key = "b.mp4" -> "b"

\* req.body.videoName: absent, a name the pattern accepts, one it rejects.
VideoNames == {"absent", "a", "a b"}

\* /^[a-zA-Z0-9_-]+$/.test(name)
videoNameRegex(name) == name \in {"a", "b"}

\* req.body.callback_url in full: absent, the empty string, an https URL, an
\* https URL that contains "stage", a string new URL() rejects.
CallbackUrls == {"absent", "empty", "url", "stageurl", "badurl"}

\* callback_url.includes("stage") ? "staging" : "production"
Environment(cb) == IF cb = "stageurl" THEN "staging" ELSE "production"

\* callback_url || null, as the job store and the queue entry keep it: the
\* model keeps "url" for both URLs.
CallbackOf(cb) == IF cb \in {"url", "stageurl"} THEN "url" ELSE "null"

\* The pre-check of the source key: getB2Service() throws (configuration),
\* or getFileInfo finds the object, finds nothing, or meets an error of the
\* object store.
Prechecks == {"found", "missing", "store_error", "no_service"}

\* B2Service.getFileInfo: the file info, or null on a miss and, its catch
\* block returning null, on every error.
getFileInfo(precheck) == IF precheck = "found" THEN "info" ELSE "null"

\* Status code of POST /api/transcode for a request.
SubmitStatus(req) ==
    IF ~authenticate(req.apiKey) THEN 401
    ELSE IF req.key = "absent" THEN 400
    ELSE IF req.callback_url = "absent" THEN 500   \* includes() of undefined throws
    ELSE IF req.callback_url = "badurl" THEN 400
    ELSE IF ~req.resolutionsValid THEN 400
    ELSE IF ~videoNameRegex(IF req.videoName # "absent" THEN req.videoName
                            ELSE Basename(req.key)) THEN 400
    ELSE IF req.precheck # "no_service" /\ getFileInfo(req.precheck) = "null" THEN 404
    ELSE 201

\* videoName || basename(key, extname(key))
OutputVideoName(req) ==
    IF req.videoName # "absent" THEN req.videoName ELSE Basename(req.key)

(***************************************************************************)
(* The transcoding worker's data.                                          *)
(***************************************************************************)
\* The builds of transcodingWorker: "batch" transcodes every resolution and
\* then uploads everything (src/workers/transcoding.js), "incremental"
\* uploads and deletes each resolution as soon as it is transcoded
\* (src/services/queue.js, second worker), "legacy" is the batch build
\* without a catch around thumbnail generation (src/services/queue.js, first
\* worker).
Variants == {"batch", "incremental", "legacy"}

\* job.data.resolutions of the jobs followed: two resolutions, and one
\* resolution requested twice (the submit route accepts repeated names).
RequestedLists == {<<"720p", "480p">>, <<"480p", "480p">>}

\* RESOLUTION_CONFIGS[r].height
RESOLUTION_CONFIGS ==
    [r \in {"1080p", "720p", "480p", "360p", "240p"} |->
        CASE r = "1080p" -> 1080
          [] r = "720p" -> 720
          [] r = "480p" -> 480
          [] r = "360p" -> 360
          [] r = "240p" -> 240]

\* Object.values(JOB_STAGES), in declaration order.
JOB_STAGES ==
    <<"initialized", "downloaded", "analyzed", "thumbnails_generated",
      "transcoded", "uploaded", "completed", "failed">>

\* stages.indexOf(stage)
indexOf(stage) == CHOOSE n \in DOMAIN JOB_STAGES : JOB_STAGES[n] = stage

\* Heights of the source video the probe can report.
SourceHeights == {360, 480, 720}

Range(f) == {f[x] : x \in DOMAIN f}

\* A filter that also drops the resolutions exactly as tall as the source.
RECURSIVE filterValidResolutionsStrict(_, _)
filterValidResolutionsStrict(requested, height) ==
    IF requested = <<>> THEN <<>>
    ELSE LET r == Head(requested)
             rest == filterValidResolutionsStrict(Tail(requested), height)
         IN IF r \notin DOMAIN RESOLUTION_CONFIGS THEN rest
            ELSE IF RESOLUTION_CONFIGS[r] >= height THEN rest
            ELSE <<r>> \o rest

\* requestedResolutions.filter(...): known resolutions no taller than the source.
RECURSIVE filterValidResolutions(_, _)
filterValidResolutions(requested, height) ==
    IF requested = <<>> THEN <<>>
    ELSE LET r == Head(requested)
             rest == filterValidResolutions(Tail(requested), height)
         IN IF r \notin DOMAIN RESOLUTION_CONFIGS THEN rest
            ELSE IF RESOLUTION_CONFIGS[r] > height THEN rest
            ELSE <<r>> \o rest

\* Files of the scratch directory and keys of the output bucket.
SourceFile == <<"source", "">>
MasterKey == <<"index.m3u8", "">>
ThumbKey == <<"thumbnail", "">>
PlaylistKey(r) == <<"index-.m3u8", r>>
SegmentKey(r) == <<"segment.ts", r>>

\* Every key a job followed can put into the output bucket.
OutputKeys ==
    {MasterKey, ThumbKey}
    \cup {PlaylistKey(r) : r \in DOMAIN RESOLUTION_CONFIGS}
    \cup {SegmentKey(r) : r \in DOMAIN RESOLUTION_CONFIGS}

\* JobStateManager.loadState when job_state.json does not exist.
DefaultState ==
    [exists |-> FALSE, stage |-> "initialized", completedResolutions |-> {},
     uploadedFiles |-> {}, repeatedFiles |-> {}, validResolutions |-> <<>>,
     thumbnailPaths |-> {}]

\* JobStateManager.updateStage / saveState
updateStage(st, stage) == [st EXCEPT !.stage = stage, !.exists = TRUE]

\* JobStateManager.addCompletedResolution
addCompletedResolution(st, r) ==
    [st EXCEPT !.completedResolutions = @ \cup {r}, !.exists = TRUE]

\* JobStateManager.addUploadedFile: push, with no look at the entries the
\* list holds. uploadedFiles are the keys with an entry, repeatedFiles the
\* keys with more than one.
addUploadedFile(st, k) ==
    [st EXCEPT !.uploadedFiles = @ \cup {k},
               !.repeatedFiles = IF k \in st.uploadedFiles THEN @ \cup {k} ELSE @,
               !.exists = TRUE]

\* JobStateManager.isStageCompleted: the recorded stage is strictly past stage.
isStageCompleted(st, stage) == indexOf(st.stage) > indexOf(stage)

\* JobStateManager.isResolutionCompleted
isResolutionCompleted(st, r) == r \in st.completedResolutions

\* JobStateManager.isFileUploaded
isFileUploaded(st, k) == k \in st.uploadedFiles

\* No handler is running: the entry waits to be handed to the worker.
IdleRun ==
    [pc |-> "idle", i |-> 1, transcodedFiles |-> <<>>, pending |-> {},
     io |-> {}, encodes |-> {}, uploads |-> {}, start |-> DefaultState]

EmptyDisk == [files |-> {}, master |-> <<>>]
EmptyBucket == [keys |-> {}, master |-> <<>>]
NoHistory ==
    [attemptsMade |-> 0, crashes |-> 0, doneEarlier |-> {}, failureCallback |-> "none",
     completionPosted |-> FALSE]

\* A B2Service as its constructor leaves it; authPromise 0 stands for null,
\* settled[id] is the state of the id-th request b2.authorize() issued.
RequestIds == 1..MaxRequests
NewService ==
    [authorized |-> FALSE, authPromise |-> 0, requests |-> 0,
     settled |-> [id \in RequestIds |-> "none"]]
CallerIds == 1..MaxCallers
IdleCaller == [pc |-> "idle", promise |-> 0]

\* The handler of a job with n valid resolutions before its first run:
\* pc is the position in the program of the run, recorded the stages the
\* run wrote to the checkpoint, done and fileOnDisk what earlier runs left.
IdleHandler(n) ==
    [status |-> "idle", pc |-> 0, attemptsMade |-> 0, n |-> n, done |-> 0,
     fileOnDisk |-> FALSE, startDone |-> 0, startFile |-> FALSE, recorded |-> {}]

\* No DELETE /job/:jobId request was received: sawQueued is what the route
\* read in job.status, found the entry getJobs returned for the job (0 when
\* none), succeeded whether a request has been answered with success after it
\* read status queued.
NoCancel == [pc |-> "none", sawQueued |-> FALSE, found |-> 0, succeeded |-> FALSE]

\* No scratch directory.
DirIds == 1..MaxDirs
NoDir == [exists |-> FALSE, status |-> "none", age |-> 0]

\* No call of filterValidResolutions is followed.
NoCall == [requested |-> <<>>, height |-> 0, returned |-> FALSE, valid |-> <<>>]

InitWorker(job) ==
    /\ filterCall = NoCall
    /\ reply = 0
    /\ keyWriters = {}
    /\ b2 = NewService
    /\ callers = [c \in CallerIds |-> IdleCaller]
    /\ scratch = [d \in DirIds |-> NoDir]
    /\ handler = IdleHandler(1)
    /\ inflight = <<>>
    /\ cancelCall = NoCancel
    /\ lifecycle = <<>>
    /\ tempDirRun = [d \in DirIds |-> "idle"]
    /\ wjob = job
    /\ checkpoint = DefaultState
    /\ disk = EmptyDisk
    /\ bucket = EmptyBucket
    /\ run = IdleRun
    /\ hist = NoHistory

Init ==
    /\ jobs = [j \in JobIds |-> NoJob]
    /\ entries = [e \in EntryIds |-> NoEntry]
    /\ envCallback = FALSE
    /\ apiKeySet \in BOOLEAN
    /\ paused = FALSE
    /\ \E v \in ConcurrencyEnv : maxConcurrentJobs = ParseConcurrency(v)
    /\ restarts = 0
    /\ runs = [e \in EntryIds |-> 0]
    /\ failEvents = [e \in EntryIds |-> 0]
    /\ failurePosts = [e \in EntryIds |-> 0]
    /\ InitWorker([variant |-> "batch", height |-> 720, thumbnails |-> TRUE,
                   resolutions |-> <<"720p", "480p">>])

(***************************************************************************)
(* POST /api/transcode                                                     *)
(***************************************************************************)
\* The handler's effect on the job store and the queue: a job row and a
\* queue entry on 201, nothing otherwise.
SubmitEffect(req) ==
    /\ FreeJobs # {}
    /\ FreeEntries # {}
    /\ IF SubmitStatus(req) # 201
       THEN UNCHANGED <<jobs, entries>>
       ELSE LET j == Min(FreeJobs)
                e == Min(FreeEntries)
            IN /\ jobs' = CreateJob(jobs, j, CallbackOf(req.callback_url),
                                    Environment(req.callback_url), OutputVideoName(req))
               /\ entries' = AddTranscodingJob(entries, e, j, CallbackOf(req.callback_url))

\* A submission of the object a.mp4 that is in the source bucket, with the
\* default resolutions and no videoName.
Submit(cb, k) ==
    /\ SubmitEffect([apiKey |-> k, key |-> "a.mp4", callback_url |-> cb,
                     resolutionsValid |-> TRUE, videoName |-> "absent",
                     precheck |-> "found"])
    /\ UNCHANGED <<workerVars, pureVars, envCallback, apiKeySet, paused, maxConcurrentJobs, restarts, runs, failEvents, failurePosts>>

(***************************************************************************)
(* Queue lifecycle: the queue hands a waiting entry to the handler and     *)
(* emits "active".                                                         *)
(***************************************************************************)
Active(e) ==
    /\ entries[e].state = "waiting"
    /\ ~paused
    /\ Cardinality(Running) < maxConcurrentJobs
    /\ entries' = [entries EXCEPT ![e].state = "active", ![e].run = "started"]
    /\ jobs' = UpdateJobStatus(jobs, entries[e].job, "processing")
    /\ runs' = [runs EXCEPT ![e] = @ + 1]
    /\ UNCHANGED <<workerVars, pureVars, envCallback, apiKeySet, paused, maxConcurrentJobs, restarts, failEvents, failurePosts>>

\* job.progress(p) in the handler, then the "progress" listener.
Progress(e, p) ==
    /\ entries[e].state = "active"
    /\ \/ entries[e].run = "started"
       \/ entries[e].run = "working" /\ p = 100
    /\ entries' = [entries EXCEPT ![e].run = IF p = 100 THEN "finishing" ELSE "working"]
    /\ jobs' = UpdateJobProgress(jobs, entries[e].job, p)
    /\ UNCHANGED <<workerVars, pureVars, envCallback, apiKeySet, paused, maxConcurrentJobs, restarts, runs, failEvents, failurePosts>>

\* The handler returned its result; the "completed" listener.
Completed(e) ==
    /\ entries[e].state = "active"
    /\ entries[e].run = "finishing"
    /\ entries' = [entries EXCEPT ![e].state = "completed", ![e].run = "none"]
    /\ jobs' = CompleteJob(jobs, entries[e].job, "index.m3u8")
    /\ UNCHANGED <<workerVars, pureVars, envCallback, apiKeySet, paused, maxConcurrentJobs, restarts, runs, failEvents, failurePosts>>

\* sendFailureCallback in the handler's catch block: one POST when a target
\* URL is known.
FailureCallback(posts, e) ==
    IF HasTargetUrl(e) THEN [posts EXCEPT ![e] = @ + 1] ELSE posts

\* MoveToFailed with the budget test off by one (attemptsMade <= attempts).
MoveToFailedOffByOne(es, e) ==
    LET made == es[e].attemptsMade + 1
    IN [es EXCEPT ![e].attemptsMade = made,
                  ![e].run = "none",
                  ![e].state = IF made <= attempts THEN "delayed" ELSE "failed"]

\* The queue's decision after the handler threw: retry with backoff while
\* attemptsMade < attempts.
MoveToFailed(es, e) ==
    LET made == es[e].attemptsMade + 1
    IN [es EXCEPT ![e].attemptsMade = made,
                  ![e].run = "none",
                  ![e].state = IF made < attempts THEN "delayed" ELSE "failed"]

\* transcodingQueue.on("failed")
OnFailed(js, e) == SetJobError(js, entries[e].job, "error")

\* The handler threw: catch block, rethrow, the queue counts the attempt and
\* emits "failed".
Failed(e) ==
    /\ entries[e].state = "active"
    /\ entries[e].run \in {"started", "working"}
    /\ failurePosts' = FailureCallback(failurePosts, e)
    /\ entries' = MoveToFailed(entries, e)
    /\ jobs' = OnFailed(jobs, e)
    /\ failEvents' = [failEvents EXCEPT ![e] = @ + 1]
    /\ UNCHANGED <<workerVars, pureVars, envCallback, apiKeySet, paused, maxConcurrentJobs, restarts, runs>>

\* The backoff delay of a delayed entry expired.
DelayExpire(e) ==
    /\ entries[e].state = "delayed"
    /\ entries' = [entries EXCEPT ![e].state = "waiting"]
    /\ UNCHANGED <<workerVars, pureVars, jobs, envCallback, apiKeySet, paused, maxConcurrentJobs, restarts, runs, failEvents, failurePosts>>

(***************************************************************************)
(* DELETE /api/transcode/job/:jobId                                        *)
(***************************************************************************)
CancelCandidates(j) ==
    LET w == {e \in EntryIds : entries[e].state = "waiting" /\ entries[e].job = j}
        d == {e \in EntryIds : entries[e].state = "delayed" /\ entries[e].job = j}
    IN IF w # {} THEN w ELSE d

Cancel(j, k) ==
    IF ~authenticate(k) \/ jobs[j].status = "none"
    THEN UNCHANGED vars    \* 401, 404
    ELSE /\ IF jobs[j].status = "queued" /\ CancelCandidates(j) # {}
            THEN \E e \in CancelCandidates(j) :
                     entries' = [entries EXCEPT ![e].state = "removed"]
            ELSE UNCHANGED entries
         /\ jobs' = SetJobError(jobs, j, "cancelled")
         /\ UNCHANGED <<workerVars, pureVars, envCallback, apiKeySet, paused, maxConcurrentJobs, restarts, runs, failEvents, failurePosts>>

(***************************************************************************)
(* POST /api/transcode/job/:jobId/retry                                    *)
(***************************************************************************)
Retry(j, k) ==
    IF ~authenticate(k) \/ jobs[j].status # "failed"
    THEN UNCHANGED vars    \* 401, 404 or 400
    ELSE /\ FreeEntries # {}
         /\ LET cb == IF jobs[j].callbackUrl = "url" THEN "url" ELSE "null"
            IN entries' = AddTranscodingJob(entries, Min(FreeEntries), j, cb)
         /\ jobs' = UpdateJobProgress(UpdateJobStatus(jobs, j, "queued"), j, 0)
         /\ UNCHANGED <<workerVars, pureVars, envCallback, apiKeySet, paused, maxConcurrentJobs, restarts, runs, failEvents, failurePosts>>

(***************************************************************************)
(* POST /api/transcode/queue/pause and /queue/resume                       *)
(***************************************************************************)
Pause(k) ==
    /\ paused' = (IF authenticate(k) THEN TRUE ELSE paused)
    /\ UNCHANGED <<workerVars, pureVars, jobs, entries, envCallback, apiKeySet, maxConcurrentJobs, restarts, runs, failEvents, failurePosts>>

Resume(k) ==
    /\ paused' = (IF authenticate(k) THEN FALSE ELSE paused)
    /\ UNCHANGED <<workerVars, pureVars, jobs, entries, envCallback, apiKeySet, maxConcurrentJobs, restarts, runs, failEvents, failurePosts>>

(***************************************************************************)
(* The worker process is killed and started again: the handlers in flight  *)
(* are gone, their entries stay in the queue's active list.                *)
(***************************************************************************)
Restart ==
    /\ restarts < MaxRestarts
    /\ Running # {}
    /\ restarts' = restarts + 1
    /\ entries' = [e \in EntryIds |-> [entries[e] EXCEPT !.run = "none"]]
    /\ UNCHANGED <<workerVars, pureVars, jobs, envCallback, apiKeySet, paused, maxConcurrentJobs, runs, failEvents, failurePosts>>

\* Stalled-entry check of the queue: an active entry nobody holds goes back to
\* waiting; the "stalled" listener only logs, the job record is not touched.
Stalled(e) ==
    /\ entries[e].state = "active"
    /\ entries[e].run = "none"
    /\ entries' = [entries EXCEPT ![e].state = "waiting", ![e].stalledCount = @ + 1]
    /\ UNCHANGED <<workerVars, pureVars, jobs, envCallback, apiKeySet, paused, maxConcurrentJobs, restarts, runs, failEvents, failurePosts>>

Next ==
    \/ \E cb \in CallbackInputs, k \in ApiKeys : Submit(cb, k)
    \/ \E e \in EntryIds : Active(e)
    \/ \E e \in EntryIds, p \in ProgressValues : Progress(e, p)
    \/ \E e \in EntryIds : Completed(e)
    \/ \E e \in EntryIds : Failed(e)
    \/ \E e \in EntryIds : DelayExpire(e)
    \/ \E j \in JobIds, k \in ApiKeys : Cancel(j, k)
    \/ \E j \in JobIds, k \in ApiKeys : Retry(j, k)
    \/ \E k \in ApiKeys : Pause(k)
    \/ \E k \in ApiKeys : Resume(k)
    \/ Restart
    \/ \E e \in EntryIds : Stalled(e)

Spec == Init /\ [][Next]_vars

(***************************************************************************)
(* The transcoding worker, one step per await of transcodingWorker.        *)
(***************************************************************************)
\* An upload that reports success and stores nothing.
uploadFileNotStored(b, d, k) == b

\* b2Service.uploadFile into the output bucket
uploadFile(b, d, k) ==
    [b EXCEPT !.keys = @ \cup {k},
              !.master = IF k = MasterKey THEN d.master ELSE @]

\* Array.prototype.sort with (a, b) => b.height - a.height: a stable sort,
\* tallest first. Insert puts r after the entries at least as tall.
RECURSIVE Insert(_, _)
Insert(sorted, r) ==
    IF sorted = <<>> THEN <<r>>
    ELSE IF RESOLUTION_CONFIGS[Head(sorted)] >= RESOLUTION_CONFIGS[r]
         THEN <<Head(sorted)>> \o Insert(Tail(sorted), r)
         ELSE <<r>> \o sorted

\* createMasterPlaylist: one stream entry per transcoded file, in sorted order.
RECURSIVE createMasterPlaylist(_)
createMasterPlaylist(transcodedFiles) ==
    IF transcodedFiles = <<>> THEN <<>>
    ELSE Insert(createMasterPlaylist(SubSeq(transcodedFiles, 1, Len(transcodedFiles) - 1)),
                transcodedFiles[Len(transcodedFiles)])

\* The finally block: the batch and legacy builds keep the scratch directory,
\* the incremental build removes it, job_state.json included.
FinallyState(st) == IF wjob.variant = "incremental" THEN DefaultState ELSE st
FinallyDisk(d) == IF wjob.variant = "incremental" THEN EmptyDisk ELSE d

\* The handler is invoked; the checkpoint does not say completed.
WStart ==
    /\ run.pc = "idle"
    /\ checkpoint.stage # "completed"
    /\ run' = [IdleRun EXCEPT !.pc = "download", !.start = checkpoint]
    /\ checkpoint' = updateStage(checkpoint, "initialized")
    /\ UNCHANGED <<systemVars, pureVars, wjob, disk, bucket, hist>>

\* The handler is invoked on a completed checkpoint: it returns at once.
WResumeCompleted ==
    /\ run.pc = "idle"
    /\ checkpoint.stage = "completed"
    /\ run' = [IdleRun EXCEPT !.pc = "completed", !.start = checkpoint]
    /\ checkpoint' = FinallyState(checkpoint)
    /\ disk' = FinallyDisk(disk)
    /\ UNCHANGED <<systemVars, pureVars, wjob, bucket, hist>>

\* Stage 1: download, unless the checkpoint is past it or the file is already
\* in the scratch directory.
WDownload ==
    /\ run.pc = "download"
    /\ IF isStageCompleted(checkpoint, "downloaded")
       THEN /\ run' = [run EXCEPT !.pc = "analyze"]
            /\ UNCHANGED <<checkpoint, disk>>
       ELSE IF SourceFile \in disk.files
       THEN /\ checkpoint' = updateStage(checkpoint, "downloaded")
            /\ run' = [run EXCEPT !.pc = "analyze"]
            /\ UNCHANGED disk
       ELSE \E ok \in BOOLEAN :
              /\ run' = [run EXCEPT !.pc = IF ok THEN "analyze" ELSE "catch",
                                    !.io = @ \cup {"download"}]
              /\ disk' = IF ok THEN [disk EXCEPT !.files = @ \cup {SourceFile}] ELSE disk
              /\ checkpoint' = IF ok THEN updateStage(checkpoint, "downloaded") ELSE checkpoint
    /\ UNCHANGED <<systemVars, pureVars, wjob, bucket, hist>>

\* Stage 2: probe the source and filter the requested resolutions, unless the
\* checkpoint is past it.
WAnalyze ==
    /\ run.pc = "analyze"
    /\ IF isStageCompleted(checkpoint, "analyzed")
       THEN /\ run' = [run EXCEPT !.pc = "thumbnails"]
            /\ UNCHANGED checkpoint
       ELSE LET validResolutions == filterValidResolutions(wjob.resolutions, wjob.height)
            IN IF validResolutions = <<>>
               THEN /\ run' = [run EXCEPT !.pc = "catch", !.io = @ \cup {"probe"}]
                    /\ UNCHANGED checkpoint
               ELSE /\ run' = [run EXCEPT !.pc = "thumbnails", !.io = @ \cup {"probe"}]
                    /\ checkpoint' = [updateStage(checkpoint, "analyzed")
                                         EXCEPT !.validResolutions = validResolutions]
    /\ UNCHANGED <<systemVars, pureVars, wjob, disk, bucket, hist>>

\* Stage 3: thumbnails, unless the checkpoint is past it. generateThumbnails
\* runs ffmpeg only for a thumbnail not yet on disk. When ffmpeg fails the
\* batch and incremental builds log it and go on without thumbnails; the
\* legacy build has no catch and the error fails the attempt.
WThumbnails ==
    /\ run.pc = "thumbnails"
    /\ IF isStageCompleted(checkpoint, "thumbnails_generated")
       THEN /\ run' = [run EXCEPT !.pc = "transcode"]
            /\ UNCHANGED <<checkpoint, disk>>
       ELSE IF ThumbKey \in disk.files
       THEN /\ run' = [run EXCEPT !.pc = "transcode"]
            /\ checkpoint' = [updateStage(checkpoint, "thumbnails_generated")
                                 EXCEPT !.thumbnailPaths = {ThumbKey}]
            /\ UNCHANGED disk
       ELSE IF wjob.thumbnails
       THEN /\ run' = [run EXCEPT !.pc = "transcode", !.io = @ \cup {"thumbnails"}]
            /\ disk' = [disk EXCEPT !.files = @ \cup {ThumbKey}]
            /\ checkpoint' = [updateStage(checkpoint, "thumbnails_generated")
                                 EXCEPT !.thumbnailPaths = {ThumbKey}]
       ELSE IF wjob.variant = "legacy"
       THEN /\ run' = [run EXCEPT !.pc = "catch",
                                  !.io = @ \cup {"thumbnails", "thumbnails_error"}]
            /\ UNCHANGED <<checkpoint, disk>>
       ELSE /\ run' = [run EXCEPT !.pc = "transcode",
                                  !.io = @ \cup {"thumbnails", "thumbnails_error"}]
            /\ checkpoint' = [updateStage(checkpoint, "thumbnails_generated")
                                 EXCEPT !.thumbnailPaths = {}]
            /\ UNCHANGED disk
    /\ UNCHANGED <<systemVars, pureVars, wjob, bucket, hist>>

\* Stage 4, a resolution the checkpoint lists as completed: the batch and
\* legacy builds push it to transcodedFiles, the incremental build only
\* continues.
WSkipResolution ==
    /\ run.pc = "transcode"
    /\ run.i <= Len(checkpoint.validResolutions)
    /\ LET resolution == checkpoint.validResolutions[run.i]
       IN /\ isResolutionCompleted(checkpoint, resolution)
          /\ run' = [run EXCEPT !.i = @ + 1,
                                !.transcodedFiles =
                                    IF wjob.variant = "incremental" THEN @
                                    ELSE Append(@, resolution)]
    /\ UNCHANGED <<systemVars, pureVars, wjob, checkpoint, disk, bucket, hist>>

\* Stage 4, transcodeToHLS of the next resolution.
WEncode ==
    /\ run.pc = "transcode"
    /\ run.i <= Len(checkpoint.validResolutions)
    /\ LET resolution == checkpoint.validResolutions[run.i]
       IN /\ ~isResolutionCompleted(checkpoint, resolution)
          /\ \E ok \in BOOLEAN :
               IF ~ok
               THEN /\ run' = [run EXCEPT !.pc = "catch", !.encodes = @ \cup {resolution}]
                    /\ UNCHANGED <<checkpoint, disk>>
               ELSE /\ disk' = [disk EXCEPT !.files = @ \cup {PlaylistKey(resolution),
                                                              SegmentKey(resolution)}]
                    /\ IF wjob.variant # "incremental"
                       THEN /\ run' = [run EXCEPT !.i = @ + 1,
                                                  !.encodes = @ \cup {resolution},
                                                  !.transcodedFiles = Append(@, resolution)]
                            /\ checkpoint' = addCompletedResolution(checkpoint, resolution)
                       ELSE /\ run' = [run EXCEPT !.pc = "upload_playlist",
                                                  !.encodes = @ \cup {resolution}]
                            /\ UNCHANGED checkpoint
    /\ UNCHANGED <<systemVars, pureVars, wjob, bucket, hist>>

\* One upload of the incremental build: uploadFile, then addUploadedFile.
\* The upload succeeds and is recorded, or it fails, or the process is killed
\* after the object is stored and before the checkpoint records it.
UploadStep(k, next) ==
    \E outcome \in {"ok", "error", "killed"} :
        CASE outcome = "ok" ->
               /\ bucket' = uploadFile(bucket, disk, k)
               /\ checkpoint' = addUploadedFile(checkpoint, k)
               /\ run' = [run EXCEPT !.pc = next, !.uploads = @ \cup {k}]
               /\ UNCHANGED hist
          [] outcome = "error" ->
               /\ run' = [run EXCEPT !.pc = "catch"]
               /\ UNCHANGED <<bucket, checkpoint, hist>>
          [] outcome = "killed" ->
               /\ hist.crashes < MaxCrashes
               /\ bucket' = uploadFile(bucket, disk, k)
               /\ hist' = [hist EXCEPT !.crashes = @ + 1]
               /\ run' = IdleRun
               /\ UNCHANGED checkpoint

\* Incremental build: the rendition's playlist is uploaded as soon as encoded.
WUploadPlaylist ==
    /\ run.pc = "upload_playlist"
    /\ UploadStep(PlaylistKey(checkpoint.validResolutions[run.i]), "upload_segments")
    /\ UNCHANGED <<systemVars, pureVars, wjob, disk>>

\* Incremental build: the rendition's segments are uploaded.
WUploadSegments ==
    /\ run.pc = "upload_segments"
    /\ UploadStep(SegmentKey(checkpoint.validResolutions[run.i]), "resolution_done")
    /\ UNCHANGED <<systemVars, pureVars, wjob, disk>>

\* Incremental build: the rendition's directory is removed and the resolution
\* recorded as completed.
WResolutionDone ==
    /\ run.pc = "resolution_done"
    /\ LET resolution == checkpoint.validResolutions[run.i]
       IN /\ disk' = [disk EXCEPT !.files = @ \ {PlaylistKey(resolution),
                                                 SegmentKey(resolution)}]
          /\ checkpoint' = addCompletedResolution(checkpoint, resolution)
          /\ run' = [run EXCEPT !.pc = "transcode", !.i = @ + 1,
                                !.transcodedFiles = Append(@, resolution)]
    /\ UNCHANGED <<systemVars, pureVars, wjob, bucket, hist>>

\* The resolution loop is over.
WTranscoded ==
    /\ run.pc = "transcode"
    /\ run.i > Len(checkpoint.validResolutions)
    /\ checkpoint' = updateStage(checkpoint, "transcoded")
    /\ run' = [run EXCEPT !.pc = "master"]
    /\ UNCHANGED <<systemVars, pureVars, wjob, disk, bucket, hist>>

\* An upload plan that leaves the segments out.
UploadPlanNoSegments(st, files, transcodedFiles) ==
    (IF isFileUploaded(st, MasterKey) THEN {} ELSE {MasterKey})
    \cup {k \in st.thumbnailPaths : ~isFileUploaded(st, k) /\ k \in files}
    \cup {k \in {PlaylistKey(r) : r \in Range(transcodedFiles)} :
              ~isFileUploaded(st, k) /\ k \in files}

\* The uploads the batch build starts: files not yet recorded as uploaded
\* and present in the scratch directory.
UploadPlan(st, files, transcodedFiles) ==
    (IF isFileUploaded(st, MasterKey) THEN {} ELSE {MasterKey})
    \cup {k \in st.thumbnailPaths : ~isFileUploaded(st, k) /\ k \in files}
    \cup {k \in {PlaylistKey(r) : r \in Range(transcodedFiles)} :
              ~isFileUploaded(st, k) /\ k \in files}
    \cup {k \in {SegmentKey(r) : r \in Range(transcodedFiles)} :
              ~isFileUploaded(st, k) /\ k \in files}

\* Stage 5: the master playlist. The batch and legacy builds write it unless
\* the file exists and then plan their uploads, unless the checkpoint is past
\* the upload stage; the incremental build always writes it.
WMasterPlaylist ==
    /\ run.pc = "master"
    /\ LET written == [disk EXCEPT !.files = @ \cup {MasterKey},
                                   !.master = createMasterPlaylist(run.transcodedFiles)]
           kept == IF MasterKey \in disk.files THEN disk ELSE written
       IN IF wjob.variant # "incremental"
          THEN /\ disk' = kept
               /\ run' = IF isStageCompleted(checkpoint, "uploaded")
                         THEN [run EXCEPT !.pc = "callback"]
                         ELSE [run EXCEPT !.pc = "upload",
                                          !.pending = UploadPlan(checkpoint, kept.files,
                                                                 run.transcodedFiles)]
          ELSE /\ disk' = written
               /\ run' = [run EXCEPT !.pc = "upload_master"]
    /\ UNCHANGED <<systemVars, pureVars, wjob, checkpoint, bucket, hist>>

\* Stage 6 of the batch build: one of the planned uploads settles
\* (uploadFileWithTracking).
WUploadBatch(k) ==
    /\ run.pc = "upload"
    /\ k \in run.pending
    /\ \E outcome \in {"ok", "error", "killed"} :
         CASE outcome = "ok" ->
                /\ bucket' = uploadFile(bucket, disk, k)
                /\ checkpoint' = addUploadedFile(checkpoint, k)
                /\ run' = [run EXCEPT !.pending = @ \ {k}, !.uploads = @ \cup {k}]
                /\ UNCHANGED hist
           [] outcome = "error" ->
                /\ run' = [run EXCEPT !.pc = "catch"]
                /\ UNCHANGED <<bucket, checkpoint, hist>>
           [] outcome = "killed" ->
                /\ hist.crashes < MaxCrashes
                /\ bucket' = uploadFile(bucket, disk, k)
                /\ hist' = [hist EXCEPT !.crashes = @ + 1]
                /\ run' = IdleRun
                /\ UNCHANGED checkpoint
    /\ UNCHANGED <<systemVars, pureVars, wjob, disk>>

\* Stage 6 of the batch build: every planned upload is done.
WUploaded ==
    /\ run.pc = "upload"
    /\ run.pending = {}
    /\ checkpoint' = updateStage(checkpoint, "uploaded")
    /\ run' = [run EXCEPT !.pc = "callback"]
    /\ UNCHANGED <<systemVars, pureVars, wjob, disk, bucket, hist>>

\* Stage 6 of the incremental build: the master playlist is uploaded and its
\* local copy removed.
WUploadMaster ==
    /\ run.pc = "upload_master"
    /\ UploadStep(MasterKey, "upload_thumbnails")
    /\ disk' = IF run'.pc = "upload_thumbnails"
               THEN [disk EXCEPT !.files = @ \ {MasterKey}]
               ELSE disk
    /\ UNCHANGED <<systemVars, pureVars, wjob>>

\* Stage 6 of the incremental build: the thumbnails still on disk are uploaded
\* and removed.
WUploadThumbnails ==
    /\ run.pc = "upload_thumbnails"
    /\ IF ThumbKey \in checkpoint.thumbnailPaths /\ ThumbKey \in disk.files
       THEN /\ UploadStep(ThumbKey, "source_cleanup")
            /\ disk' = IF run'.pc = "source_cleanup"
                       THEN [disk EXCEPT !.files = @ \ {ThumbKey}]
                       ELSE disk
       ELSE /\ run' = [run EXCEPT !.pc = "source_cleanup"]
            /\ UNCHANGED <<bucket, checkpoint, disk, hist>>
    /\ UNCHANGED <<systemVars, pureVars, wjob>>

\* Stage 6 of the incremental build ends: the source file is removed.
WSourceCleanup ==
    /\ run.pc = "source_cleanup"
    /\ disk' = [disk EXCEPT !.files = @ \ {SourceFile}]
    /\ checkpoint' = updateStage(checkpoint, "uploaded")
    /\ run' = [run EXCEPT !.pc = "callback"]
    /\ UNCHANGED <<systemVars, pureVars, wjob, bucket, hist>>

\* Stage 7: the completion callback, when a target URL is known. The batch
\* and legacy builds fail the attempt on a callback error, the incremental
\* build logs it and goes on. Stage 8: the checkpoint says completed.
WCallback ==
    /\ run.pc = "callback"
    /\ \E ok \in BOOLEAN :
         /\ ~envCallback => ok
         /\ LET posted == (IF envCallback THEN {"callback"} ELSE {})
                              \cup (IF ok THEN {} ELSE {"callback_error"})
            IN IF ~ok /\ wjob.variant # "incremental"
               THEN /\ run' = [run EXCEPT !.pc = "catch", !.io = @ \cup posted]
                    /\ UNCHANGED checkpoint
               ELSE /\ run' = [run EXCEPT !.pc = "return", !.io = @ \cup posted]
                    /\ checkpoint' = updateStage(checkpoint, "completed")
         /\ hist' = [hist EXCEPT !.completionPosted = @ \/ (envCallback /\ ok)]
    /\ UNCHANGED <<systemVars, pureVars, wjob, disk, bucket>>

\* The completion log line, job.progress(100), the return and the finally
\* block. The batch and incremental builds await JobManager.addJobLog after
\* the checkpoint says completed; when that job-store write throws, the
\* catch block runs. The legacy build writes no log line there.
WReturn ==
    /\ run.pc = "return"
    /\ \E ok \in BOOLEAN :
         /\ wjob.variant = "legacy" => ok
         /\ IF ok
            THEN /\ run' = [run EXCEPT !.pc = "completed"]
                 /\ checkpoint' = FinallyState(checkpoint)
                 /\ disk' = FinallyDisk(disk)
            ELSE /\ run' = [run EXCEPT !.pc = "catch"]
                 /\ UNCHANGED <<checkpoint, disk>>
    /\ UNCHANGED <<systemVars, pureVars, wjob, bucket, hist>>

\* The catch block (stage failed, failure callback whose error is only
\* logged, rethrow), the finally block, and the queue's decision: another
\* attempt or failed for good.
WCatch ==
    /\ run.pc = "catch"
    /\ \E ok \in BOOLEAN :
         LET made == hist.attemptsMade + 1
             posted == IF ~envCallback THEN "skipped" ELSE IF ok THEN "sent" ELSE "error"
         IN /\ ~envCallback => ok
            /\ hist' = [hist EXCEPT !.attemptsMade = made,
                                    !.doneEarlier = @ \cup checkpoint.completedResolutions,
                                    !.failureCallback = posted]
            /\ run' = [IdleRun EXCEPT !.pc = IF made < attempts THEN "idle" ELSE "failed"]
    /\ checkpoint' = FinallyState(updateStage(checkpoint, "failed"))
    /\ disk' = FinallyDisk(disk)
    /\ UNCHANGED <<systemVars, pureVars, wjob, bucket>>

\* The worker process is killed while the handler runs; the queue hands the
\* stalled entry to the restarted worker.
WCrash ==
    /\ run.pc \notin {"idle", "completed", "failed"}
    /\ hist.crashes < MaxCrashes
    /\ hist' = [hist EXCEPT !.crashes = @ + 1]
    /\ run' = IdleRun
    /\ UNCHANGED <<systemVars, pureVars, wjob, checkpoint, disk, bucket>>

InitW ==
    /\ jobs = [j \in JobIds |-> NoJob]
    /\ entries = [e \in EntryIds |-> NoEntry]
    /\ envCallback \in BOOLEAN
    /\ apiKeySet = FALSE
    /\ paused = FALSE
    /\ maxConcurrentJobs = MAX_CONCURRENT_JOBS
    /\ restarts = 0
    /\ runs = [e \in EntryIds |-> 0]
    /\ failEvents = [e \in EntryIds |-> 0]
    /\ failurePosts = [e \in EntryIds |-> 0]
    /\ \E v \in Variants, h \in SourceHeights, t \in BOOLEAN, rs \in RequestedLists :
           InitWorker([variant |-> v, height |-> h, thumbnails |-> t, resolutions |-> rs])

NextW ==
    \/ WStart
    \/ WResumeCompleted
    \/ WDownload
    \/ WAnalyze
    \/ WThumbnails
    \/ WSkipResolution
    \/ WEncode
    \/ WUploadPlaylist
    \/ WUploadSegments
    \/ WResolutionDone
    \/ WTranscoded
    \/ WMasterPlaylist
    \/ \E k \in OutputKeys : WUploadBatch(k)
    \/ WUploaded
    \/ WUploadMaster
    \/ WUploadThumbnails
    \/ WSourceCleanup
    \/ WCallback
    \/ WReturn
    \/ WCatch
    \/ WCrash

SpecW == InitW /\ [][NextW]_vars

(***************************************************************************)
(* filterValidResolutions on its own: the arguments are drawn from bounded  *)
(* sets, the one step is the call.                                         *)
(***************************************************************************)
\* Names a requested list is made of: the five configured ones and one that
\* has no entry in RESOLUTION_CONFIGS.
RequestedNames == DOMAIN RESOLUTION_CONFIGS \cup {"4k"}

\* Heights getVideoInfo reports: 0 when the stream has none, equal to a
\* profile's height, between two profiles.
ProbedHeights == {0, 240, 480, 500, 1080}

\* The requested lists of at most MaxRequested names.
RequestedInputs ==
    UNION {[1..n -> RequestedNames] : n \in 0..MaxRequested}

\* filterValidResolutions(requestedResolutions, videoInfo) is called.
FilterCall ==
    /\ ~filterCall.returned
    /\ filterCall' = [filterCall EXCEPT
                         !.returned = TRUE,
                         !.valid = filterValidResolutions(filterCall.requested,
                                                          filterCall.height)]
    /\ UNCHANGED <<systemVars, workerVars, reply, keyWriters, b2, callers, scratch, tempDirRun, handler, inflight, cancelCall, lifecycle>>

InitF ==
    /\ jobs = [j \in JobIds |-> NoJob]
    /\ entries = [e \in EntryIds |-> NoEntry]
    /\ envCallback = FALSE
    /\ apiKeySet = FALSE
    /\ paused = FALSE
    /\ reply = 0
    /\ keyWriters = {}
    /\ b2 = NewService
    /\ callers = [c \in CallerIds |-> IdleCaller]
    /\ scratch = [d \in DirIds |-> NoDir]
    /\ handler = IdleHandler(1)
    /\ inflight = <<>>
    /\ cancelCall = NoCancel
    /\ lifecycle = <<>>
    /\ tempDirRun = [d \in DirIds |-> "idle"]
    /\ maxConcurrentJobs = MAX_CONCURRENT_JOBS
    /\ restarts = 0
    /\ runs = [e \in EntryIds |-> 0]
    /\ failEvents = [e \in EntryIds |-> 0]
    /\ failurePosts = [e \in EntryIds |-> 0]
    /\ wjob = [variant |-> "batch", height |-> 720, thumbnails |-> TRUE,
               resolutions |-> <<"720p", "480p">>]
    /\ checkpoint = DefaultState
    /\ disk = EmptyDisk
    /\ bucket = EmptyBucket
    /\ run = IdleRun
    /\ hist = NoHistory
    /\ \E requested \in RequestedInputs, height \in ProbedHeights :
           filterCall = [requested |-> requested, height |-> height,
                         returned |-> FALSE, valid |-> <<>>]

NextF == FilterCall

SpecF == InitF /\ [][NextF]_vars

(***************************************************************************)
(* The submission route with every request body it can receive, and the    *)
(* output-bucket keys the workers of the created jobs write (SpecA).       *)
(***************************************************************************)

SubmitRequests ==
    [apiKey : ApiKeys, key : SourceKeys, callback_url : CallbackUrls,
     resolutionsValid : BOOLEAN, videoName : VideoNames, precheck : Prechecks]

\* POST / with body req is answered.
SubmitRequest(req) ==
    /\ SubmitEffect(req)
    /\ reply' = SubmitStatus(req)
    /\ UNCHANGED <<workerVars, filterCall, keyWriters, b2, callers, scratch, tempDirRun, handler, inflight, cancelCall, lifecycle,
                   envCallback, apiKeySet, paused, maxConcurrentJobs, restarts,
                   runs, failEvents, failurePosts>>

\* POST / with body req while the queue refuses the entry: createJob has
\* written the row, addTranscodingJob throws, the route's catch answers 500.
SubmitEnqueueFails(req) ==
    /\ SubmitStatus(req) = 201
    /\ FreeJobs # {}
    /\ jobs' = CreateJob(jobs, Min(FreeJobs), CallbackOf(req.callback_url),
                         Environment(req.callback_url), OutputVideoName(req))
    /\ reply' = 500
    /\ UNCHANGED <<workerVars, filterCall, keyWriters, b2, callers, scratch, tempDirRun, handler, inflight, cancelCall, lifecycle,
                   entries, envCallback, apiKeySet, paused, maxConcurrentJobs, restarts,
                   runs, failEvents, failurePosts>>

\* The key of the master playlist of a job whose payload carries videoName.
MasterPlaylistKey(videoName) == <<videoName, "index.m3u8">>

\* The worker of job j uploads the master playlist.
WorkerUploads(j) ==
    /\ jobs[j].status = "queued"
    /\ \E e \in EntryIds : entries[e].job = j
    /\ <<MasterPlaylistKey(jobs[j].videoName), j>> \notin keyWriters
    /\ keyWriters' = keyWriters \cup {<<MasterPlaylistKey(jobs[j].videoName), j>>}
    /\ UNCHANGED <<systemVars, workerVars, filterCall, reply, b2, callers, scratch, tempDirRun, handler, inflight, cancelCall, lifecycle>>

InitA ==
    /\ jobs = [j \in JobIds |-> NoJob]
    /\ entries = [e \in EntryIds |-> NoEntry]
    /\ envCallback = FALSE
    /\ apiKeySet \in BOOLEAN
    /\ paused = FALSE
    /\ maxConcurrentJobs = MAX_CONCURRENT_JOBS
    /\ restarts = 0
    /\ runs = [e \in EntryIds |-> 0]
    /\ failEvents = [e \in EntryIds |-> 0]
    /\ failurePosts = [e \in EntryIds |-> 0]
    /\ InitWorker([variant |-> "batch", height |-> 720, thumbnails |-> TRUE,
                   resolutions |-> <<"720p", "480p">>])

NextA ==
    \/ \E req \in SubmitRequests : SubmitRequest(req)
    \/ \E req \in SubmitRequests : SubmitEnqueueFails(req)
    \/ \E j \in JobIds : WorkerUploads(j)

SpecA == InitA /\ [][NextA]_vars

(***************************************************************************)
(* Authorization of the B2 service under concurrent callers (SpecB).       *)
(* A call of authorize() runs without interruption up to its first await,  *)
(* which includes the start of _doAuthorize and of its request.            *)
(***************************************************************************)

\* authorize() that starts a request whenever the service is not authorized.
authorizeUnshared(st) ==
    IF st.authorized
    THEN [service |-> st, awaits |-> 0]
    ELSE LET id == st.requests + 1
         IN [service |-> [st EXCEPT !.authPromise = id, !.requests = id,
                                     !.settled[id] = "pending"],
             awaits |-> id]

\* B2Service.authorize up to its await: the service afterwards and the
\* promise the caller awaits (0: it returns at once).
authorize(st) ==
    IF st.authorized
    THEN [service |-> st, awaits |-> 0]
    ELSE IF st.authPromise # 0
    THEN [service |-> st, awaits |-> st.authPromise]
    ELSE LET id == st.requests + 1
         IN [service |-> [st EXCEPT !.authPromise = id, !.requests = id,
                                     !.settled[id] = "pending"],
             awaits |-> id]

\* B2Service._doAuthorize after its request settled, successfully or not.
doAuthorize(st, id, ok) ==
    [st EXCEPT !.settled[id] = IF ok THEN "ok" ELSE "failed",
               !.authorized = ok,
               !.authPromise = 0]

\* Caller c calls authorize().
Authorize(c) ==
    /\ callers[c].pc # "awaiting"
    /\ LET r == authorize(b2)
       IN /\ r.service.requests <= MaxRequests
          /\ b2' = r.service
          /\ callers' = [callers EXCEPT ![c] =
                 [pc |-> IF r.awaits = 0 THEN "returned" ELSE "awaiting",
                  promise |-> r.awaits]]
    /\ UNCHANGED <<systemVars, workerVars, filterCall, reply, keyWriters, scratch, tempDirRun, handler, inflight, cancelCall, lifecycle>>

\* The request id of b2.authorize() settles.
Settle(id, ok) ==
    /\ b2.settled[id] = "pending"
    /\ b2' = doAuthorize(b2, id, ok)
    /\ UNCHANGED <<systemVars, workerVars, filterCall, reply, keyWriters, callers, scratch, tempDirRun, handler, inflight, cancelCall, lifecycle>>

\* The call of caller c resumes after the promise it awaited settled.
Return(c) ==
    /\ callers[c].pc = "awaiting"
    /\ b2.settled[callers[c].promise] \in {"ok", "failed"}
    /\ callers' = [callers EXCEPT ![c].pc =
           IF b2.settled[callers[c].promise] = "ok" THEN "returned" ELSE "threw"]
    /\ UNCHANGED <<systemVars, workerVars, filterCall, reply, keyWriters, b2, scratch, tempDirRun, handler, inflight, cancelCall, lifecycle>>

InitB ==
    /\ jobs = [j \in JobIds |-> NoJob]
    /\ entries = [e \in EntryIds |-> NoEntry]
    /\ envCallback = FALSE
    /\ apiKeySet = FALSE
    /\ paused = FALSE
    /\ maxConcurrentJobs = MAX_CONCURRENT_JOBS
    /\ restarts = 0
    /\ runs = [e \in EntryIds |-> 0]
    /\ failEvents = [e \in EntryIds |-> 0]
    /\ failurePosts = [e \in EntryIds |-> 0]
    /\ InitWorker([variant |-> "batch", height |-> 720, thumbnails |-> TRUE,
                   resolutions |-> <<"720p", "480p">>])

NextB ==
    \/ \E c \in CallerIds : Authorize(c)
    \/ \E id \in RequestIds, ok \in BOOLEAN : Settle(id, ok)
    \/ \E c \in CallerIds : Return(c)

SpecB == InitB /\ [][NextB]_vars

(***************************************************************************)
(* The reaper of scratch directories, cleanupOldJobs, in its two builds    *)
(* (SpecR).  Ages are minutes since the updatedAt of the checkpoint.       *)
(***************************************************************************)

\* What is found in a scratch directory: no job_state.json ("none"), one
\* that does not parse ("corrupt"), or one with the stage it records.
DirStages == {"none", "corrupt", "transcoding", "completed", "failed"}
DirAges == <<30, 60, 61, 1440, 1441>>
ReaperBuilds == {"split", "uniform"}

\* The default of the parameter maxAgeHours in each build.
DefaultMaxAgeHours(build) == IF build = "split" THEN 1 ELSE 24

\* The decision of cleanupOldJobs(maxAgeHours) on one directory.
shouldCleanup(build, dir, maxAgeHours) ==
    LET maxAge == maxAgeHours * 60
    IN IF build = "split"
       THEN \/ dir.status = "none"
            \/ dir.status = "completed" /\ dir.age > maxAge
            \/ dir.status = "failed" /\ dir.age > 24 * 60
       ELSE /\ dir.status \in {"completed", "failed"}
            /\ dir.age > maxAge

\* cleanupOldJobs() of the given build runs over the uploads directory.
Sweep(build) ==
    /\ scratch' = [d \in DirIds |->
           IF scratch[d].exists
              /\ shouldCleanup(build, scratch[d], DefaultMaxAgeHours(build))
           THEN NoDir ELSE scratch[d]]
    /\ UNCHANGED <<systemVars, workerVars, filterCall, reply, keyWriters, b2, callers, handler, inflight, cancelCall, lifecycle, tempDirRun>>

\* Time passes: the age of directory d reaches the next value followed.
Elapse(d) ==
    /\ scratch[d].exists
    /\ \E i \in 1..(Len(DirAges) - 1) :
          /\ scratch[d].age = DirAges[i]
          /\ scratch' = [scratch EXCEPT ![d].age = DirAges[i + 1]]
    /\ UNCHANGED <<systemVars, workerVars, filterCall, reply, keyWriters, b2, callers, handler, inflight, cancelCall, lifecycle, tempDirRun>>

InitR ==
    /\ jobs = [j \in JobIds |-> NoJob]
    /\ entries = [e \in EntryIds |-> NoEntry]
    /\ envCallback = FALSE
    /\ apiKeySet = FALSE
    /\ paused = FALSE
    /\ maxConcurrentJobs = MAX_CONCURRENT_JOBS
    /\ restarts = 0
    /\ runs = [e \in EntryIds |-> 0]
    /\ failEvents = [e \in EntryIds |-> 0]
    /\ failurePosts = [e \in EntryIds |-> 0]
    /\ filterCall = NoCall
    /\ reply = 0
    /\ keyWriters = {}
    /\ b2 = NewService
    /\ callers = [c \in CallerIds |-> IdleCaller]
    /\ handler = IdleHandler(1)
    /\ inflight = <<>>
    /\ cancelCall = NoCancel
    /\ lifecycle = <<>>
    /\ tempDirRun = [d \in DirIds |-> "idle"]
    /\ wjob = [variant |-> "batch", height |-> 720, thumbnails |-> TRUE,
               resolutions |-> <<"720p", "480p">>]
    /\ checkpoint = DefaultState
    /\ disk = EmptyDisk
    /\ bucket = EmptyBucket
    /\ run = IdleRun
    /\ hist = NoHistory
    /\ scratch \in [DirIds -> [exists : {TRUE}, status : DirStages, age : {DirAges[1]}]]

NextR ==
    \/ \E build \in ReaperBuilds : Sweep(build)
    \/ \E d \in DirIds : Elapse(d)

SpecR == InitR /\ [][NextR]_vars

(***************************************************************************)
(* One job's handler as the sequence of its job.progress calls, awaited    *)
(* operations and checkpoint writes, with the "progress" listener of the   *)
(* queue (SpecP).  job.progress(p) is not awaited: it sends p to the queue,*)
(* which raises the "progress" event later; the handler goes on.  The      *)
(* handler gives up control only where it awaits an operation.             *)
(***************************************************************************)

\* The operations of the program: job.progress(value) called while working
\* towards the write of stage; an awaited operation; a checkpoint write of
\* stage; addCompletedResolution.
OpProgress(stage, value) == [op |-> "progress", stage |-> stage, value |-> value]
OpAwait(what) == [op |-> "await", stage |-> what, value |-> 0]
OpStage(stage) == [op |-> "stage", stage |-> stage, value |-> 0]
OpDone == [op |-> "done", stage |-> "transcoded", value |-> 0]

\* Math.round(15 + k * (65 / n) / 2): the progress after k halves of the n
\* resolutions.
RoundedProgress(n, k) == (31 * n + 65 * k) \div (2 * n)

\* The body of the loop for resolution i: skipped when an earlier run
\* completed it, else encoded, the progress callback reporting half way.
ResolutionOps(n, i, startDone) ==
    IF i <= startDone
    THEN <<OpProgress("transcoded", RoundedProgress(n, 2 * i))>>
    ELSE <<OpAwait("encode"),
           OpProgress("transcoded", RoundedProgress(n, 2 * i - 1)),
           OpAwait("encode"),
           OpDone,
           OpProgress("transcoded", RoundedProgress(n, 2 * i))>>

RECURSIVE LoopOps(_, _, _)
LoopOps(n, i, startDone) ==
    IF i > n THEN <<>>
    ELSE ResolutionOps(n, i, startDone) \o LoopOps(n, i + 1, startDone)

\* The try block of the batch worker for n valid resolutions, on a scratch
\* directory where startDone resolutions are recorded and the source file
\* is present or not.
Program(n, startDone, startFile) ==
    <<OpStage("initialized"), OpProgress("downloaded", 5)>>
    \o (IF startFile THEN <<>> ELSE <<OpAwait("download")>>)
    \o <<OpStage("downloaded"),
          OpProgress("analyzed", 10), OpAwait("probe"), OpStage("analyzed"),
          OpProgress("thumbnails_generated", 12), OpAwait("thumbnails"),
          OpStage("thumbnails_generated")>>
    \o LoopOps(n, 1, startDone)
    \o <<OpStage("transcoded"),
          OpProgress("uploaded", 82), OpAwait("master"),
          OpProgress("uploaded", 85), OpAwait("upload"), OpStage("uploaded"),
          OpProgress("completed", 95), OpAwait("callback"), OpStage("completed"),
          OpProgress("none", 100)>>

HandlerProgram == Program(handler.n, handler.startDone, handler.startFile)

\* The handler runs from position i without giving up control: up to the
\* next awaited operation or to the end of the program.
RECURSIVE RunOn(_, _, _)
RunOn(h, events, i) ==
    LET prog == Program(h.n, h.startDone, h.startFile)
    IN IF i > Len(prog)
       THEN [handler |-> [h EXCEPT !.pc = i, !.status = "completed"], inflight |-> events]
       ELSE LET o == prog[i]
            IN CASE o.op = "await" ->
                      [handler |-> [h EXCEPT !.pc = i], inflight |-> events]
                 [] o.op = "progress" ->
                      RunOn(h, Append(events, [stage |-> o.stage, value |-> o.value,
                                               attempt |-> h.attemptsMade]), i + 1)
                 [] o.op = "stage" ->
                      RunOn([h EXCEPT !.recorded = @ \cup {o.stage}], events, i + 1)
                 [] o.op = "done" ->
                      RunOn([h EXCEPT !.done = @ + 1], events, i + 1)

\* The queue invokes the handler.
PStart ==
    /\ handler.status = "idle"
    /\ LET r == RunOn([handler EXCEPT !.status = "running", !.recorded = {},
                                       !.startDone = handler.done,
                                       !.startFile = handler.fileOnDisk],
                      inflight, 1)
       IN handler' = r.handler /\ inflight' = r.inflight
    /\ UNCHANGED <<systemVars, workerVars, filterCall, reply, keyWriters, b2, callers, scratch, tempDirRun, cancelCall, lifecycle>>

\* The awaited operation ends: the handler goes on, or the operation threw
\* and the catch block writes stage failed; the queue starts the handler
\* again while attempts are left.
PAwaited(ok) ==
    /\ handler.status = "running"
    /\ IF ok
       THEN LET h == IF HandlerProgram[handler.pc].stage = "download"
                     THEN [handler EXCEPT !.fileOnDisk = TRUE] ELSE handler
                r == RunOn(h, inflight, handler.pc + 1)
            IN handler' = r.handler /\ inflight' = r.inflight
       ELSE /\ handler' = [handler EXCEPT
                   !.recorded = @ \cup {"failed"},
                   !.attemptsMade = @ + 1,
                   !.status = IF handler.attemptsMade + 1 < attempts
                              THEN "idle" ELSE "failed"]
            /\ UNCHANGED inflight
    /\ UNCHANGED <<systemVars, workerVars, filterCall, reply, keyWriters, b2, callers, scratch, tempDirRun, cancelCall, lifecycle>>

\* The "progress" listener handles the oldest event: updateJobProgress.
PProgress ==
    /\ inflight # <<>>
    /\ jobs' = UpdateJobProgress(jobs, 1, Head(inflight).value)
    /\ inflight' = Tail(inflight)
    /\ UNCHANGED <<workerVars, filterCall, reply, keyWriters, b2, callers, scratch, tempDirRun, handler, cancelCall, lifecycle,
                   entries, envCallback, apiKeySet, paused, maxConcurrentJobs,
                   restarts, runs, failEvents, failurePosts>>

InitP ==
    /\ jobs = [j \in JobIds |-> IF j = 1 THEN [NoJob EXCEPT !.status = "processing"] ELSE NoJob]
    /\ entries = [e \in EntryIds |-> NoEntry]
    /\ envCallback = FALSE
    /\ apiKeySet = FALSE
    /\ paused = FALSE
    /\ maxConcurrentJobs = MAX_CONCURRENT_JOBS
    /\ restarts = 0
    /\ runs = [e \in EntryIds |-> 0]
    /\ failEvents = [e \in EntryIds |-> 0]
    /\ failurePosts = [e \in EntryIds |-> 0]
    /\ filterCall = NoCall
    /\ reply = 0
    /\ keyWriters = {}
    /\ b2 = NewService
    /\ callers = [c \in CallerIds |-> IdleCaller]
    /\ scratch = [d \in DirIds |-> NoDir]
    /\ \E n \in 1..MaxResolutions : handler = IdleHandler(n)
    /\ inflight = <<>>
    /\ cancelCall = NoCancel
    /\ lifecycle = <<>>
    /\ tempDirRun = [d \in DirIds |-> "idle"]
    /\ wjob = [variant |-> "batch", height |-> 720, thumbnails |-> TRUE,
               resolutions |-> <<"720p", "480p">>]
    /\ checkpoint = DefaultState
    /\ disk = EmptyDisk
    /\ bucket = EmptyBucket
    /\ run = IdleRun
    /\ hist = NoHistory

NextP ==
    \/ PStart
    \/ \E ok \in BOOLEAN : PAwaited(ok)
    \/ PProgress

SpecP == InitP /\ [][NextP]_vars

(***************************************************************************)
(* Cancellation against the queue's lifecycle (SpecC).  The route, the     *)
(* queue and the listeners run in one process: every await of the route    *)
(* on the queue is a point where the queue may reserve the entry, and a    *)
(* lifecycle listener runs some time after the queue changed the entry.    *)
(***************************************************************************)
CJob == 1

\* The queue reserves a waiting entry for the handler; "active" is emitted.
CReserve(e) ==
    /\ entries[e].state = "waiting"
    /\ ~paused
    /\ Cardinality(Running) < maxConcurrentJobs
    /\ Len(lifecycle) < MaxPending
    /\ entries' = [entries EXCEPT ![e].state = "active", ![e].run = "started"]
    /\ runs' = [runs EXCEPT ![e] = @ + 1]
    /\ lifecycle' = Append(lifecycle, [event |-> "active", entry |-> e])
    /\ UNCHANGED <<workerVars, filterCall, reply, keyWriters, b2, callers, scratch, tempDirRun,
                   handler, inflight, cancelCall, jobs, envCallback, apiKeySet,
                   paused, maxConcurrentJobs, restarts, failEvents, failurePosts>>

\* The handler returned its result or threw: the queue moves the entry and
\* emits "completed" or "failed".
CHandlerReturns(e, ok) ==
    /\ entries[e].state = "active"
    /\ entries[e].run = "started"
    /\ Len(lifecycle) < MaxPending
    /\ IF ok
       THEN /\ entries' = [entries EXCEPT ![e].state = "completed", ![e].run = "none"]
            /\ lifecycle' = Append(lifecycle, [event |-> "completed", entry |-> e])
            /\ UNCHANGED <<failEvents, failurePosts>>
       ELSE /\ entries' = MoveToFailed(entries, e)
            /\ lifecycle' = Append(lifecycle, [event |-> "failed", entry |-> e])
            /\ failurePosts' = FailureCallback(failurePosts, e)
            /\ failEvents' = [failEvents EXCEPT ![e] = @ + 1]
    /\ UNCHANGED <<workerVars, filterCall, reply, keyWriters, b2, callers, scratch, tempDirRun,
                   handler, inflight, cancelCall, jobs, envCallback, apiKeySet,
                   paused, maxConcurrentJobs, restarts, runs>>

\* The job store statement of the listener of an event.
ListenerEffect(js, ev) ==
    LET j == entries[ev.entry].job
    IN CASE ev.event = "active" -> UpdateJobStatus(js, j, "processing")
         [] ev.event = "completed" -> CompleteJob(js, j, "index.m3u8")
         [] ev.event = "failed" -> SetJobError(js, j, "error")

\* The listener of the oldest pending event runs; its job store statement
\* succeeds or throws, and nothing catches what it throws.
CListener(ok) ==
    /\ lifecycle # <<>>
    /\ lifecycle' = Tail(lifecycle)
    /\ jobs' = IF ok THEN ListenerEffect(jobs, Head(lifecycle)) ELSE jobs
    /\ UNCHANGED <<workerVars, filterCall, reply, keyWriters, b2, callers, scratch, tempDirRun,
                   handler, inflight, cancelCall, entries, envCallback, apiKeySet,
                   paused, maxConcurrentJobs, restarts, runs, failEvents, failurePosts>>

\* DELETE /job/:jobId up to its first await on the queue: getJob and the
\* test of job.status.
CancelRead ==
    /\ cancelCall.pc = "none"
    /\ jobs[CJob].status # "none"
    /\ cancelCall' = [cancelCall EXCEPT
                         !.sawQueued = (jobs[CJob].status = "queued"),
                         !.found = 0,
                         !.pc = IF jobs[CJob].status = "queued" THEN "lookup" ELSE "set"]
    /\ UNCHANGED <<systemVars, workerVars, filterCall, reply, keyWriters, b2, callers,
                   scratch, tempDirRun, handler, inflight, lifecycle>>

\* queue.getJobs(["waiting", "delayed"]) answered; find by jobId.
CancelLookup ==
    /\ cancelCall.pc = "lookup"
    /\ LET c == CancelCandidates(CJob)
       IN cancelCall' = [cancelCall EXCEPT
                            !.found = IF c = {} THEN 0 ELSE Min(c),
                            !.pc = IF c = {} THEN "set" ELSE "remove"]
    /\ UNCHANGED <<systemVars, workerVars, filterCall, reply, keyWriters, b2, callers,
                   scratch, tempDirRun, handler, inflight, lifecycle>>

\* bullJob.remove() answered: the entry is removed, or the queue refuses
\* because the entry is held by the handler, and the route only warns.
CancelRemove ==
    /\ cancelCall.pc = "remove"
    /\ entries' = IF entries[cancelCall.found].state = "active"
                  THEN entries
                  ELSE [entries EXCEPT ![cancelCall.found].state = "removed"]
    /\ cancelCall' = [cancelCall EXCEPT !.pc = "set"]
    /\ UNCHANGED <<workerVars, filterCall, reply, keyWriters, b2, callers, scratch, tempDirRun,
                   handler, inflight, lifecycle, jobs, envCallback, apiKeySet,
                   paused, maxConcurrentJobs, restarts, runs, failEvents, failurePosts>>

\* setJobError(jobId, "Job cancelled by user") and the answer success: true.
CancelSet ==
    /\ cancelCall.pc = "set"
    /\ jobs' = SetJobError(jobs, CJob, "cancelled")
    /\ cancelCall' = [cancelCall EXCEPT !.pc = "none",
                                        !.succeeded = @ \/ cancelCall.sawQueued]
    /\ UNCHANGED <<workerVars, filterCall, reply, keyWriters, b2, callers, scratch, tempDirRun,
                   handler, inflight, lifecycle, entries, envCallback, apiKeySet,
                   paused, maxConcurrentJobs, restarts, runs, failEvents, failurePosts>>

\* POST /job/:jobId/retry by the user, while no cancellation is under way.
CRetry ==
    /\ cancelCall.pc = "none"
    /\ jobs[CJob].status = "failed"
    /\ FreeEntries # {}
    /\ entries' = AddTranscodingJob(entries, Min(FreeEntries), CJob, "null")
    /\ jobs' = UpdateJobProgress(UpdateJobStatus(jobs, CJob, "queued"), CJob, 0)
    /\ cancelCall' = [cancelCall EXCEPT !.succeeded = FALSE]
    /\ UNCHANGED <<workerVars, filterCall, reply, keyWriters, b2, callers, scratch, tempDirRun,
                   handler, inflight, lifecycle, envCallback, apiKeySet,
                   paused, maxConcurrentJobs, restarts, runs, failEvents, failurePosts>>

\* One accepted submission: the job is queued and its entry waits.
InitC ==
    /\ jobs = CreateJob([j \in JobIds |-> NoJob], CJob, "null", "production", "a")
    /\ entries = AddTranscodingJob([e \in EntryIds |-> NoEntry], 1, CJob, "null")
    /\ envCallback = FALSE
    /\ apiKeySet = FALSE
    /\ paused = FALSE
    /\ maxConcurrentJobs = MAX_CONCURRENT_JOBS
    /\ restarts = 0
    /\ runs = [e \in EntryIds |-> 0]
    /\ failEvents = [e \in EntryIds |-> 0]
    /\ failurePosts = [e \in EntryIds |-> 0]
    /\ InitWorker([variant |-> "batch", height |-> 720, thumbnails |-> TRUE,
                   resolutions |-> <<"720p", "480p">>])

NextC ==
    \/ \E e \in EntryIds : CReserve(e)
    \/ \E e \in EntryIds, ok \in BOOLEAN : CHandlerReturns(e, ok)
    \/ \E ok \in BOOLEAN : CListener(ok)
    \/ \E e \in EntryIds : DelayExpire(e)
    \/ CancelRead
    \/ CancelLookup
    \/ CancelRemove
    \/ CancelSet
    \/ CRetry

SpecC == InitC /\ [][NextC]_vars

(***************************************************************************)
(* One accepted submission under a fair queue (SpecL): a waiting entry is  *)
(* reserved while a worker slot is free, a backoff delay expires, the      *)
(* handler's promise settles, and every emitted event reaches its          *)
(* listener.  No request of a user interferes.                             *)
(***************************************************************************)
NextL ==
    \/ \E e \in EntryIds : CReserve(e)
    \/ \E e \in EntryIds, ok \in BOOLEAN : CHandlerReturns(e, ok)
    \/ \E ok \in BOOLEAN : CListener(ok)
    \/ \E e \in EntryIds : DelayExpire(e)

Fairness ==
    /\ WF_vars(\E e \in EntryIds : CReserve(e))
    /\ WF_vars(\E e \in EntryIds, ok \in BOOLEAN : CHandlerReturns(e, ok))
    /\ WF_vars(\E ok \in BOOLEAN : CListener(ok))
    /\ WF_vars(\E e \in EntryIds : DelayExpire(e))

SpecL == InitC /\ [][NextL]_vars /\ Fairness

(***************************************************************************)
(* Sweeps of cleanupOldJobs against runs of the worker on the same         *)
(* scratch directories (SpecS).  The worker and the sweep run in one       *)
(* process: a sweep runs between two steps of a run, each step going from  *)
(* one await of the object store, the encoder or the callback to the next. *)
(* A write of job_state.json that fails is only logged by saveState.       *)
(***************************************************************************)
\* A job_state.json just written with a stage before completed.
FreshCheckpoint == [exists |-> TRUE, status |-> "transcoding", age |-> DirAges[1]]

\* The directories a new run can find: none, or one left by an earlier run
\* with its checkpoint.
LeftDirs ==
    {NoDir} \cup [exists : {TRUE}, status : {"failed", "completed"}, age : {DirAges[1]}]

\* transcodingWorker from mkdirSync to the download: the directory is made,
\* the checkpoint is loaded, updateStage(INITIALIZED) writes it.  A
\* checkpoint at stage completed makes the handler return at once.
RunStart(d, saved) ==
    /\ tempDirRun[d] = "idle"
    /\ scratch[d].status # "completed"
    /\ tempDirRun' = [tempDirRun EXCEPT ![d] = "running"]
    /\ scratch' = [scratch EXCEPT ![d] = IF saved THEN FreshCheckpoint
                                         ELSE [scratch[d] EXCEPT !.exists = TRUE]]
    /\ UNCHANGED <<systemVars, workerVars, filterCall, reply, keyWriters, b2, callers,
                   handler, inflight, cancelCall, lifecycle>>

\* A later stage of the run is recorded: saveState makes the directory again
\* when it is gone and writes the checkpoint.
RunStage(d) ==
    /\ tempDirRun[d] = "running"
    /\ scratch' = [scratch EXCEPT ![d] = FreshCheckpoint]
    /\ UNCHANGED <<systemVars, workerVars, filterCall, reply, keyWriters, b2, callers,
                   handler, inflight, cancelCall, lifecycle, tempDirRun>>

\* The run ends: stage completed or failed is written, and the finally block
\* of the incremental build removes the directory.
RunEnd(d, ok, saved) ==
    /\ tempDirRun[d] = "running"
    /\ tempDirRun' = [tempDirRun EXCEPT ![d] = "idle"]
    /\ scratch' = [scratch EXCEPT ![d] =
           IF wjob.variant = "incremental" THEN NoDir
           ELSE IF saved
                THEN [exists |-> TRUE,
                      status |-> IF ok THEN "completed" ELSE "failed",
                      age |-> DirAges[1]]
                ELSE scratch[d]]
    /\ UNCHANGED <<systemVars, workerVars, filterCall, reply, keyWriters, b2, callers,
                   handler, inflight, cancelCall, lifecycle>>

InitS ==
    /\ jobs = [j \in JobIds |-> NoJob]
    /\ entries = [e \in EntryIds |-> NoEntry]
    /\ envCallback = FALSE
    /\ apiKeySet = FALSE
    /\ paused = FALSE
    /\ maxConcurrentJobs = MAX_CONCURRENT_JOBS
    /\ restarts = 0
    /\ runs = [e \in EntryIds |-> 0]
    /\ failEvents = [e \in EntryIds |-> 0]
    /\ failurePosts = [e \in EntryIds |-> 0]
    /\ filterCall = NoCall
    /\ reply = 0
    /\ keyWriters = {}
    /\ b2 = NewService
    /\ callers = [c \in CallerIds |-> IdleCaller]
    /\ handler = IdleHandler(1)
    /\ inflight = <<>>
    /\ cancelCall = NoCancel
    /\ lifecycle = <<>>
    /\ tempDirRun = [d \in DirIds |-> "idle"]
    /\ \E v \in Variants :
          wjob = [variant |-> v, height |-> 720, thumbnails |-> TRUE,
                  resolutions |-> <<"720p", "480p">>]
    /\ checkpoint = DefaultState
    /\ disk = EmptyDisk
    /\ bucket = EmptyBucket
    /\ run = IdleRun
    /\ hist = NoHistory
    /\ scratch \in [DirIds -> LeftDirs]

NextS ==
    \/ \E d \in DirIds, saved \in BOOLEAN : RunStart(d, saved)
    \/ \E d \in DirIds : RunStage(d)
    \/ \E d \in DirIds, ok \in BOOLEAN, saved \in BOOLEAN : RunEnd(d, ok, saved)
    \/ \E build \in ReaperBuilds : Sweep(build)
    \/ \E d \in DirIds : Elapse(d)

SpecS == InitS /\ [][NextS]_vars

(***************************************************************************)
(* Properties of the job store, the queue and the API (Spec).              *)
(***************************************************************************)
LegalTransitions ==
    {<<"queued", "processing">>, <<"processing", "completed">>,
     <<"processing", "failed">>, <<"failed", "queued">>, <<"queued", "failed">>}

\* C1: every change of a job record's status is one of the legal transitions
\* queued->processing, processing->completed, processing->failed,
\* failed->queued, queued->failed.
C1_OnlyLegalTransitions ==
    [][\A j \in JobIds :
          (jobs[j].status # "none" /\ jobs'[j].status # jobs[j].status)
              => <<jobs[j].status, jobs'[j].status>> \in LegalTransitions]_vars

\* C2: once a job record is completed no step changes any of its fields,
\* except a retry that resets it to queued with progress 0.
C2_CompletedIsFrozen ==
    [][\A j \in JobIds :
          jobs[j].status = "completed"
              => \/ jobs'[j] = jobs[j]
                 \/ jobs'[j].status = "queued" /\ jobs'[j].progress = 0]_vars

\* C3: a job record with status completed has output_key set and progress 100.
C3_CompletedHasOutputAndFullProgress ==
    \A j \in JobIds :
        jobs[j].status = "completed"
            => jobs[j].output_key # "null" /\ jobs[j].progress = 100

\* C4: the number of job records with status processing never exceeds the
\* configured concurrency.
C4_ProcessingWithinConcurrency ==
    Cardinality({j \in JobIds : jobs[j].status = "processing"}) <= maxConcurrentJobs

\* Entry e is the only queue entry ever created for its job and never stalled:
\* its job was driven by the queue's automatic retries alone.
QueueDriven(e) ==
    /\ entries[e].state # "none"
    /\ entries[e].stalledCount = 0
    /\ \A f \in EntryIds : f # e => entries[f].job # entries[e].job

C6_OneFailureCallback ==
    \A e \in EntryIds :
        (QueueDriven(e) /\ entries[e].callbackUrl = "url" /\ entries[e].state = "failed")
            => failurePosts[e] = 1

\* The entries of job j that are waiting for a run.
Pending(es, j) ==
    {e \in EntryIds : es[e].job = j /\ es[e].state \in {"waiting", "delayed"}}

\* C21: a cancel request takes effect only on a queued job, whose queue entry
\* is removed and whose record becomes failed with the cancelled message; on
\* a job that is processing, completed or failed it changes neither the job
\* store nor the queue.
C21_CancelOnlyQueued ==
    [][\A j \in JobIds, k \in ApiKeys :
          Cancel(j, k) =>
              /\ jobs[j].status \in {"processing", "completed", "failed"}
                     => UNCHANGED <<jobs, entries>>
              /\ (jobs[j].status = "queued" /\ authenticate(k))
                     => /\ jobs'[j].status = "failed"
                        /\ jobs'[j].error_message = "cancelled"
                        /\ Pending(entries', j) = {}]_vars

\* C22: a retry request is accepted only for a failed job; it leaves the job
\* queued with progress 0 and no error_message, and enqueues exactly one new
\* entry that carries the payload of the job's earlier entries.
C22_RetryResetsAndReenqueues ==
    [][\A j \in JobIds, k \in ApiKeys :
          (Retry(j, k) /\ <<jobs, entries>>' # <<jobs, entries>>) =>
              /\ jobs[j].status = "failed"
              /\ jobs'[j].status = "queued"
              /\ jobs'[j].progress = 0
              /\ jobs'[j].error_message = "null"
              /\ \E e \in EntryIds :
                    /\ entries[e].state = "none"
                    /\ entries'[e].job = j /\ entries'[e].state = "waiting"
                    /\ \A f \in EntryIds \ {e} : entries'[f] = entries[f]
                    /\ \A f \in EntryIds \ {e} :
                          entries[f].job = j
                              => entries'[e].callbackUrl = entries[f].callbackUrl]_vars

\* C23: at no time do two handler runs execute the pipeline of the same job.
C23_OneRunPerJob ==
    \A e, f \in Running : e # f => entries[e].job # entries[f].job

\* C30: a mutating request (submit, cancel, retry, pause, resume) whose API
\* key is missing or differs from the configured one changes neither the job
\* store nor the queue, whether API_KEY is set or not.
C30_BadKeyChangesNothing ==
    [][\A k \in ApiKeys \ {"right"} :
          (\/ \E cb \in CallbackInputs : Submit(cb, k)
           \/ \E j \in JobIds : Cancel(j, k) \/ Retry(j, k)
           \/ Pause(k)
           \/ Resume(k))
              => UNCHANGED <<jobs, entries, paused>>]_vars

\* C31: once the checkpoint of a job says completed, no later step of that
\* run or of a later run writes failed or any other stage into it.
C31_CompletedStageIsFinal ==
    [][(checkpoint.exists /\ checkpoint.stage = "completed")
          => (checkpoint'.exists => checkpoint'.stage = "completed")]_vars

\* C32: every progress write issued while the handler works on a stage is
\* applied to the job store before the checkpoint write that records the
\* stage: no progress event of the current run is still unhandled when the
\* stage it was issued for is written to the checkpoint.
C32_ProgressBeforeStageWrite ==
    \A i \in DOMAIN inflight :
        inflight[i].attempt = handler.attemptsMade
            => inflight[i].stage \notin handler.recorded

\* C33: whatever the runs, retries and restarts of the worker, the
\* checkpoint's uploadedFiles holds at most one entry for a key (and
\* completedResolutions, kept by inclusion test, each resolution once).
C33_OneEntryPerUploadedKey ==
    checkpoint.repeatedFiles = {}

\* C34: the master playlist uploaded by a run that ends successfully, a
\* resumed run included, has exactly one stream entry for every valid
\* resolution of the job.
C34_MasterListsEveryResolution ==
    (run.pc = "completed" /\ MasterKey \in run.uploads) =>
        LET valid == filterValidResolutions(wjob.resolutions, wjob.height)
        IN /\ Range(bucket.master) = Range(valid)
           /\ Len(bucket.master) = Cardinality(Range(valid))

\* C35: when the handler of a job has returned, so that the job record
\* becomes completed, and a callback URL is known, a completion callback
\* POST for the job succeeded earlier.
C35_CompletionNoticeDelivered ==
    (run.pc = "completed" /\ envCallback) => hist.completionPosted

\* C29: when no requested resolution fits the source, the attempt fails on
\* validation before anything is encoded or uploaded, and that failure is
\* final: no further attempt is scheduled for the job.
C29_ValidationFailureIsFinal ==
    [][(/\ WCatch
        /\ "probe" \in run.io
        /\ filterValidResolutions(wjob.resolutions, wjob.height) = <<>>)
          => /\ run.encodes = {}
             /\ run.uploads = {}
             /\ bucket.keys = {}
             /\ run'.pc = "failed"]_vars

(***************************************************************************)
(* Properties of the submission route (SpecA).                             *)
(***************************************************************************)

\* The requests that pass authentication and every validation of the route
\* other than the ones on callback_url and on the existence of the source.
WellFormed(req) ==
    /\ authenticate(req.apiKey)
    /\ req.key # "absent"
    /\ req.callback_url # "badurl"
    /\ req.resolutionsValid
    /\ videoNameRegex(OutputVideoName(req))

\* Job j is created by the step, with environment env.
Created(j, env) ==
    /\ jobs[j].status = "none"
    /\ jobs'[j].status = "queued"
    /\ jobs'[j].environment = env

\* C24: no two distinct jobs upload to the same key of the output bucket,
\* also when two submissions name the same source key or the same videoName.
C24_DistinctOutputKeys ==
    \A p, q \in keyWriters : p[1] = q[1] => p[2] = q[2]

\* C26: every submission with a valid key whose source exists creates a job,
\* whether callback_url is absent or present, and the job's environment is
\* staging exactly when callback_url is present and contains "stage".
C26_EnvironmentFromCallback ==
    [][\A req \in SubmitRequests :
          (SubmitRequest(req) /\ WellFormed(req) /\ req.precheck = "found") =>
              \E j \in JobIds :
                  Created(j, IF req.callback_url = "stageurl"
                             THEN "staging" ELSE "production")]_vars

\* C27: a submission whose source is confirmed missing from the originals
\* bucket is answered 404 and creates nothing; a pre-check that itself fails
\* does not reject the submission, the job is created.
C27_PrecheckMissVsError ==
    [][\A req \in SubmitRequests :
          (SubmitRequest(req) /\ WellFormed(req) /\ req.callback_url # "absent") =>
              /\ req.precheck = "missing"
                    => reply' = 404 /\ UNCHANGED <<jobs, entries>>
              /\ req.precheck \in {"store_error", "no_service"}
                    => reply' = 201 /\ \E j \in JobIds : Created(j, jobs'[j].environment)]_vars

\* C37: every job whose status is queued has a queue entry, waiting or
\* delayed, that references it; a submission whose enqueueing fails after
\* the job row was created leaves no job queued without an entry.
C37_QueuedHasEntry ==
    \A j \in JobIds : jobs[j].status = "queued" => Pending(entries, j) # {}

(***************************************************************************)
(* Properties of the B2 authorization (SpecB).                             *)
(***************************************************************************)

\* The authorization requests in flight.
InFlight == {id \in RequestIds : b2.settled[id] = "pending"}

\* C25: callers of authorize() that overlap share one in-flight authorization
\* request: at most one request is in flight, a call made while one is in
\* flight issues none and waits for that one, and a call returns or throws
\* as the request it waited for succeeded or failed; a call made once the
\* service is authorized issues no request and returns.
C25_SharedAuthorization ==
    /\ [](/\ Cardinality(InFlight) <= 1
          /\ \A c \in CallerIds :
                /\ callers[c].pc = "awaiting"
                       => b2.settled[callers[c].promise] # "none"
                /\ (callers[c].pc = "returned" /\ callers[c].promise # 0)
                       => b2.settled[callers[c].promise] = "ok"
                /\ callers[c].pc = "threw"
                       => b2.settled[callers[c].promise] = "failed")
    /\ [][\A c \in CallerIds :
             /\ (Authorize(c) /\ InFlight # {})
                    => /\ b2' = b2
                       /\ callers'[c].pc = "awaiting"
                       /\ callers'[c].promise \in InFlight
             /\ (Authorize(c) /\ b2.authorized)
                    => /\ b2' = b2
                       /\ callers'[c].pc = "returned"]_vars

\* Two callers returned from one request they shared, which was the only one
\* issued, and a third call made afterwards returned without a request.
C25_Witness ==
    /\ b2.requests = 1
    /\ b2.authorized
    /\ \E c, d, e \in CallerIds :
          /\ c # d
          /\ callers[c] = [pc |-> "returned", promise |-> 1]
          /\ callers[d] = [pc |-> "returned", promise |-> 1]
          /\ callers[e] = [pc |-> "returned", promise |-> 0]

(***************************************************************************)
(* Properties of the reaper (SpecR).                                       *)
(***************************************************************************)

\* C28: a run of the reaper removes a scratch directory exactly when the
\* directory has no checkpoint file, or its checkpoint is completed and
\* older than 1 hour, or failed and older than 24 hours; no other directory
\* is ever removed.
C28_ReaperPolicy ==
    [][\A d \in DirIds :
          LET due == \/ scratch[d].status = "none"
                     \/ scratch[d].status = "completed" /\ scratch[d].age > 60
                     \/ scratch[d].status = "failed" /\ scratch[d].age > 1440
          IN scratch[d].exists =>
                /\ ~scratch'[d].exists => due
                /\ ((\E build \in ReaperBuilds : Sweep(build)) /\ due)
                       => ~scratch'[d].exists]_vars

(***************************************************************************)
(* Properties of the transcoding worker (SpecW).                           *)
(***************************************************************************)
\* The output keys of an uninterrupted run on the job followed.
ExpectedKeys ==
    LET valid == Range(filterValidResolutions(wjob.resolutions, wjob.height))
    IN {MasterKey} \cup (IF wjob.thumbnails THEN {ThumbKey} ELSE {})
       \cup {PlaylistKey(r) : r \in valid} \cup {SegmentKey(r) : r \in valid}

\* The master playlist of an uninterrupted run on the job followed.
ExpectedMaster ==
    LET valid == filterValidResolutions(wjob.resolutions, wjob.height)
        first(n) == \A m \in 1..(n - 1) : valid[m] # valid[n]
        pushed == IF wjob.variant = "incremental"
                  THEN SelectSeq([n \in DOMAIN valid |-> <<n, valid[n]>>],
                                 LAMBDA p : first(p[1]))
                  ELSE [n \in DOMAIN valid |-> <<n, valid[n]>>]
    IN createMasterPlaylist([n \in DOMAIN pushed |-> pushed[n][2]])

\* C7: a job whose worker was killed and restarted, and none of whose attempts
\* failed, ends like an uninterrupted run: completed, with the same set of
\* output-bucket keys and the same master playlist content.
C7_ResumeEquivalence ==
    (run.pc = "completed" /\ hist.attemptsMade = 0)
        => bucket.keys = ExpectedKeys /\ bucket.master = ExpectedMaster

\* C8: a handler started on a checkpoint whose stage is completed returns
\* success having done no download, probe, encode, upload or callback, and
\* leaves the checkpoint as it found it.
C8_CompletedShortCircuit ==
    (run.pc = "completed" /\ run.start.stage = "completed")
        => /\ run.io = {} /\ run.encodes = {} /\ run.uploads = {}
           /\ checkpoint = run.start

\* C9: no step uploads a file whose key the checkpoint's uploadedFiles
\* already records.
C9_NoUploadOfRecordedKey ==
    [][\A k \in run'.uploads \ run.uploads : ~isFileUploaded(checkpoint, k)]_vars

\* C10: no step invokes the encoder for a resolution that was completed when
\* an earlier attempt failed.
C10_NoReencodeAfterFailure ==
    [][\A r \in run'.encodes \ run.encodes : r \notin hist.doneEarlier]_vars

\* C11: a run that loaded a checkpoint whose stage is neither completed nor
\* failed repeats no stage the checkpoint records as strictly past: no
\* download when the stage is past downloaded, no probe when it is past
\* analyzed, no thumbnail generation when it is past thumbnails_generated.
C11_SkipsCompletedPrefix ==
    run.start.stage \notin {"completed", "failed"}
        => /\ isStageCompleted(run.start, "downloaded") => "download" \notin run.io
           /\ isStageCompleted(run.start, "analyzed") => "probe" \notin run.io
           /\ isStageCompleted(run.start, "thumbnails_generated")
                  => "thumbnails" \notin run.io

\* C12: in every state, a crash at any point included, every key the
\* checkpoint records in uploadedFiles is in the output bucket.
C12_RecordedKeysAreStored ==
    checkpoint.uploadedFiles \subseteq bucket.keys

\* The worker was killed between an upload and its record: the bucket holds a
\* key the checkpoint does not record, next to keys it does record.
C12_Witness ==
    /\ run.pc = "idle"
    /\ hist.crashes > 0
    /\ checkpoint.uploadedFiles # {}
    /\ bucket.keys \ checkpoint.uploadedFiles # {}

\* C13: in every state, a crash at any point included, the rendition playlist
\* and the segments of every resolution the checkpoint records in
\* completedResolutions are in the output bucket.
C13_CompletedResolutionsAreStored ==
    \A r \in checkpoint.completedResolutions :
        PlaylistKey(r) \in bucket.keys /\ SegmentKey(r) \in bucket.keys

\* The hls_ directories of the scratch directory.
ResolutionDirs ==
    {r \in DOMAIN RESOLUTION_CONFIGS :
        PlaylistKey(r) \in disk.files \/ SegmentKey(r) \in disk.files}

\* C14: at every instant at most one hls_ directory exists in the scratch
\* directory, and none for a resolution recorded in completedResolutions.
C14_OneRenditionOnDisk ==
    /\ Cardinality(ResolutionDirs) <= 1
    /\ ResolutionDirs \cap checkpoint.completedResolutions = {}

\* C15: a step in which the completion callback POST fails sends the attempt
\* to the catch block (the error is raised and the attempt counts as failed),
\* and no step removes a key from the output bucket.
C15_CallbackFailureFailsAttempt ==
    [][/\ "callback_error" \in run'.io \ run.io => run'.pc = "catch"
       /\ bucket.keys \subseteq bucket'.keys]_vars

\* C16: a run in which a stage raised ends with the checkpoint on disk and
\* its stage failed, and the error raised to the queue (the attempt counts),
\* whether the failure callback was sent, failed or was skipped.
C16_FailedRunLeavesFailedCheckpoint ==
    [][hist'.attemptsMade > hist.attemptsMade
          => checkpoint'.exists /\ checkpoint'.stage = "failed"]_vars

\* C17: a step in which thumbnail generation fails does not fail the run: it
\* records stage thumbnails_generated with an empty thumbnail list and goes on
\* to transcoding.
C17_ThumbnailFailureIsNotFatal ==
    []["thumbnails_error" \in run'.io \ run.io
          => /\ run'.pc = "transcode"
             /\ checkpoint'.stage = "thumbnails_generated"
             /\ checkpoint'.thumbnailPaths = {}]_vars

\* The stream entries of a master playlist are in strictly descending height.
StrictlyDescending(master) ==
    \A m, n \in DOMAIN master :
        m < n => RESOLUTION_CONFIGS[master[m]] > RESOLUTION_CONFIGS[master[n]]

\* C19: for every requested list the submit route accepts, a list with a
\* repeated name included, the stream entries of the master playlist, as
\* written and as uploaded, are in strictly descending height: no height
\* appears twice.
C19_MasterStrictlyDescending ==
    StrictlyDescending(disk.master) /\ StrictlyDescending(bucket.master)

\* The output bucket holds the master playlist and, for every valid
\* resolution of the job followed, its playlist and a segment.
BundleStored ==
    /\ MasterKey \in bucket.keys
    /\ \A r \in Range(filterValidResolutions(wjob.resolutions, wjob.height)) :
          PlaylistKey(r) \in bucket.keys /\ SegmentKey(r) \in bucket.keys

C18_ValidIsOrderedSubsequence ==
    filterCall.returned =>
        LET fits(r) == /\ r \in DOMAIN RESOLUTION_CONFIGS
                       /\ RESOLUTION_CONFIGS[r] <= filterCall.height
        IN /\ filterCall.valid = SelectSeq(filterCall.requested, fits)
           /\ Range(filterCall.valid) \subseteq Range(filterCall.requested)
           /\ \A r \in Range(filterCall.valid) :
                  RESOLUTION_CONFIGS[r] <= filterCall.height

\* The call returned for a list that holds a resolution exactly as tall as the
\* source, one taller, and one shorter listed before the taller one.
C18_Witness ==
    /\ filterCall.returned
    /\ Range(filterCall.requested) \subseteq DOMAIN RESOLUTION_CONFIGS
    /\ \E a, b, c \in DOMAIN filterCall.requested :
          /\ a < b
          /\ RESOLUTION_CONFIGS[filterCall.requested[a]] < filterCall.height
          /\ RESOLUTION_CONFIGS[filterCall.requested[b]] > filterCall.height
          /\ RESOLUTION_CONFIGS[filterCall.requested[c]] = filterCall.height
    /\ Len(filterCall.valid) = 2

(***************************************************************************)
(* Properties of cancellation against the queue's lifecycle (SpecC).       *)
(***************************************************************************)
\* C36: once a cancellation that found the job queued has been answered with
\* success, the job is neither processing nor completed as long as no user
\* retry is issued, however the route's steps interleave with the queue
\* reserving the entry and the lifecycle listeners running.
C36_CancelledStaysCancelled ==
    cancelCall.succeeded => jobs[CJob].status \notin {"processing", "completed"}

(***************************************************************************)
(* Properties of one submission under a fair queue (SpecL).                *)
(***************************************************************************)
\* The entries of job j the queue still holds for a run or is running.
Live(es, j) ==
    {e \in EntryIds : es[e].job = j /\ es[e].state \in {"waiting", "active", "delayed"}}

\* C38: when the queue is scheduled fairly and every call of the handler and
\* of the listeners returns, with success or with an error, an accepted
\* submission eventually has its job completed or failed and no queue entry
\* of it waiting, active or delayed.
C38_EveryJobSettles ==
    <>(/\ jobs[CJob].status \in {"completed", "failed"}
       /\ Live(entries, CJob) = {})

(***************************************************************************)
(* Properties of sweeps against runs (SpecS).                              *)
(***************************************************************************)
\* C39: a sweep of the reaper never deletes the scratch directory of a job
\* whose run is in progress, whenever the sweep falls during the run and
\* whatever the directory held when the run started.
C39_ReaperSparesRunningJobs ==
    [][\A build \in ReaperBuilds :
          Sweep(build) =>
              \A d \in DirIds :
                  (tempDirRun[d] = "running" /\ scratch[d].exists)
                      => scratch'[d].exists]_vars

====
